---- MODULE Spec2Model ----
(***************************************************************************)
(* A model of the RFC 2217 bridge of gserial: the server side PortManager  *)
(* (telnet filter, option negotiation, com-port subnegotiation), the       *)
(* client side Serial (read loop, options, subnegotiations) and the pumps  *)
(* of ser2tcp that couple them to a serial device.                         *)
(*                                                                         *)
(* Bytes are the integers 0..255, byte strings are sequences of bytes.     *)
(* A python exception raised inside a handler is the field exc of the      *)
(* running state: the assignments made before the raise stay, everything   *)
(* after it is skipped.                                                    *)
(***************************************************************************)
EXTENDS Integers, Sequences, FiniteSets, TLC

VARIABLES
    manager,    \* the PortManager object (filter state, masks, options)
    serial,     \* the SerialDevice the manager drives
    task,       \* the tcp-to-serial greenlet: "running" or "dead"
    peer,       \* the frames the remote peer of this connection may send
    c2s,        \* bytes in flight on the socket towards the server
    recvd,      \* the chunk the last connection.recv() returned
    sent,       \* the connection.write() calls of the last step, in order
    tty,        \* the bytes the last step wrote to the serial device
    log,        \* the log records of the last step
    calls,      \* the telnet handlers the filter called in the last step
    rt,         \* history: the in-band data given and delivered so far
    client,     \* the client Serial object (filter state, options, settings)
    reader,     \* the client's _telnet_read_loop greenlet
    user,       \* where the greenlet that called Serial.open() is
    s2c,        \* bytes in flight on the socket towards the client
    step        \* the operation the last step ran

vars == <<manager, serial, task, peer, c2s, recvd, sent, tty, log, calls, rt,
          client, reader, user, s2c, step>>

----------------------------------------------------------------------------
(* telnet protocol characters and RFC 2217 codes                            *)

SE == 240
NOP == 241
SB == 250
WILL == 251
WONT == 252
DO == 253
DONT == 254
IAC == 255
IAC_DOUBLED == <<IAC, IAC>>

BINARY == 0
ECHO == 1
SGA == 3
COM_PORT_OPTION == 44

SET_BAUDRATE == 1
SET_DATASIZE == 2
SET_PARITY == 3
SET_STOPSIZE == 4
SET_CONTROL == 5
NOTIFY_LINESTATE == 6
NOTIFY_MODEMSTATE == 7
FLOWCONTROL_SUSPEND == 8
FLOWCONTROL_RESUME == 9
SET_LINESTATE_MASK == 10
SET_MODEMSTATE_MASK == 11
PURGE_DATA == 12

SERVER_SET_BAUDRATE == 101
SERVER_SET_DATASIZE == 102
SERVER_SET_PARITY == 103
SERVER_SET_STOPSIZE == 104
SERVER_SET_CONTROL == 105
SERVER_NOTIFY_LINESTATE == 106
SERVER_NOTIFY_MODEMSTATE == 107
SERVER_PURGE_DATA == 112

SET_CONTROL_REQ_FLOW_SETTING == 0
SET_CONTROL_USE_NO_FLOW_CONTROL == 1
SET_CONTROL_USE_SW_FLOW_CONTROL == 2
SET_CONTROL_USE_HW_FLOW_CONTROL == 3
SET_CONTROL_REQ_BREAK_STATE == 4
SET_CONTROL_BREAK_ON == 5
SET_CONTROL_BREAK_OFF == 6
SET_CONTROL_REQ_DTR == 7
SET_CONTROL_DTR_ON == 8
SET_CONTROL_DTR_OFF == 9
SET_CONTROL_REQ_RTS == 10
SET_CONTROL_RTS_ON == 11
SET_CONTROL_RTS_OFF == 12

MODEMSTATE_MASK_CD == 128
MODEMSTATE_MASK_RI == 64
MODEMSTATE_MASK_DSR == 32
MODEMSTATE_MASK_CTS == 16
MODEMSTATE_MASK_CD_CHANGE == 8
MODEMSTATE_MASK_RI_CHANGE == 4
MODEMSTATE_MASK_DSR_CHANGE == 2
MODEMSTATE_MASK_CTS_CHANGE == 1

PURGE_RECEIVE_BUFFER == 1
PURGE_TRANSMIT_BUFFER == 2
PURGE_BOTH_BUFFERS == 3

\* parity letters and stop bit values are kept as strings
RFC2217_PARITY_MAP == [N |-> 1, O |-> 2, E |-> 3, M |-> 4, S |-> 5]
RFC2217_REVERSE_PARITY_MAP == (1 :> "N") @@ (2 :> "O") @@ (3 :> "E") @@ (4 :> "M") @@ (5 :> "S")
RFC2217_STOPBIT_MAP == [one |-> 1, one_point_five |-> 3, two |-> 2]
RFC2217_REVERSE_STOPBIT_MAP == (1 :> "one") @@ (3 :> "one_point_five") @@ (2 :> "two")

M_NORMAL == 0
M_IAC_SEEN == 1
M_NEGOTIATE == 2

REQUESTED == "REQUESTED"
ACTIVE == "ACTIVE"
INACTIVE == "INACTIVE"
REALLY_INACTIVE == "REALLY_INACTIVE"

\* python's None, for a bytes-valued and for an int-valued attribute
NoneBytes == <<-1>>
NoneInt == -1

----------------------------------------------------------------------------
(* byte string helpers                                                      *)

\* python's s[i:j] for 0 <= i <= j (0-based, j exclusive, clipped at len(s))
Slice(s, i, j) ==
    LET hi == IF j < Len(s) THEN j ELSE Len(s)
    IN  IF i >= hi THEN <<>> ELSE SubSeq(s, i + 1, hi)

RECURSIVE replace(_, _, _)
\* bytes.replace(old, new) for a one-byte old
replace(data, old, new) ==
    IF data = <<>> THEN <<>>
    ELSE (IF Head(data) = old THEN new ELSE <<Head(data)>>) \o replace(Tail(data), old, new)

RECURSIVE join(_)
\* b''.join(list of byte strings)
join(parts) == IF parts = <<>> THEN <<>> ELSE Head(parts) \o join(Tail(parts))

\* struct.unpack(b"!I", b) for len(b) = 4
unpack_I(b) == ((b[1] * 256 + b[2]) * 256 + b[3]) * 256 + b[4]

\* struct.pack(b"!I", n) for 0 <= n < 2^32
pack_I(n) == << (n \div 16777216) % 256, (n \div 65536) % 256, (n \div 256) % 256, n % 256 >>

Bit(x, w) == (x \div w) % 2

And8(a, b) ==
    LET W == <<1, 2, 4, 8, 16, 32, 64, 128>>
        f[i \in 0..8] == IF i = 0 THEN 0 ELSE f[i - 1] + W[i] * Bit(a, W[i]) * Bit(b, W[i])
    IN  f[8]

Xor8(a, b) ==
    LET W == <<1, 2, 4, 8, 16, 32, 64, 128>>
        f[i \in 0..8] == IF i = 0 THEN 0 ELSE f[i - 1] + W[i] * ((Bit(a, W[i]) + Bit(b, W[i])) % 2)
    IN  f[8]

Or8(a, b) == a + b - And8(a, b)

----------------------------------------------------------------------------
(* outgoing data escaping                                                   *)

\* faulty variant of escape: IAC is not doubled
escape_nodoubling(data) == data

escape(data) == replace(data, IAC, IAC_DOUBLED)

----------------------------------------------------------------------------
(* The running state st of a handler: the fields of the object it works on  *)
(* (PortManager or client Serial), the serial device, and what the step has *)
(* produced so far: wr (writes to the connection), out (in-band bytes       *)
(* yielded), log, calls, exc.                                               *)

Raise(st, e) == [st EXCEPT !.exc = e]
Log(st, rec) == [st EXCEPT !.log = Append(@, rec)]
Called(st, c) == [st EXCEPT !.calls = Append(@, c)]

\* connection.write(data) / Serial._internal_raw_write(data)
write(st, data) == [st EXCEPT !.wr = Append(@, data)]

telnet_send_option(st, action, option) == write(st, <<IAC, action, option>>)

\* faulty variant of rfc2217_send_subnegotiation: the value is sent as it is
rfc2217_send_subnegotiation_raw(st, option, value) ==
    write(st, <<IAC, SB, COM_PORT_OPTION, option>> \o value \o <<IAC, SE>>)

rfc2217_send_subnegotiation(st, option, value) ==
    write(st, <<IAC, SB, COM_PORT_OPTION, option>> \o replace(value, IAC, IAC_DOUBLED) \o <<IAC, SE>>)

----------------------------------------------------------------------------
(* SerialDevice: posix.Serial                                               *)

BAUDRATE_CONSTANTS ==
    {0, 50, 75, 110, 134, 150, 200, 300, 600, 1200, 1800, 2400, 4800, 9600,
     19200, 38400, 57600, 115200, 230400, 460800, 500000, 576000, 921600,
     1000000, 1152000, 1500000, 2000000, 2500000, 3000000, 3500000, 4000000}

\* The exception _reconfigure_port raises for the settings in dev: "none" or
\* "ValueError". A rate outside the table is set with _set_special_baudrate,
\* whose ioctl fails or not with the driver (dev.special_baud_fails); mark and
\* space parity need the platform's CMSPAR flag (dev.cmspar).
_reconfigure_port(dev) ==
    IF dev.bytesize \notin {5, 6, 7, 8} THEN "ValueError"
    ELSE IF dev.stopbits \notin {"one", "one_point_five", "two"} THEN "ValueError"
    ELSE IF ~ (dev.parity \in {"N", "E", "O"} \/ (dev.parity \in {"M", "S"} /\ dev.cmspar))
         THEN "ValueError"
    ELSE IF dev.baudrate \notin BAUDRATE_CONSTANTS /\ dev.special_baud_fails THEN "ValueError"
    ELSE "none"

\* serial.<attr> = value: the attribute is assigned, then the port is
\* reconfigured, which may raise
setattr(st, attr, value) ==
    LET dev == [st.serial EXCEPT ![attr] = value]
    IN  [st EXCEPT !.serial = dev, !.exc = _reconfigure_port(dev)]

----------------------------------------------------------------------------
(* PortManager: modem line notification                                     *)

\* the line bits read from the device
modemstate_lines(dev) ==
      (IF dev.cts THEN MODEMSTATE_MASK_CTS ELSE 0)
    + (IF dev.dsr THEN MODEMSTATE_MASK_DSR ELSE 0)
    + (IF dev.ri THEN MODEMSTATE_MASK_RI ELSE 0)
    + (IF dev.cd THEN MODEMSTATE_MASK_CD ELSE 0)

\* the change bits for the lines that differ from the last state
modemstate_deltas(raw, deltas) ==
      raw
    + (IF And8(deltas, MODEMSTATE_MASK_CTS) # 0 THEN MODEMSTATE_MASK_CTS_CHANGE ELSE 0)
    + (IF And8(deltas, MODEMSTATE_MASK_DSR) # 0 THEN MODEMSTATE_MASK_DSR_CHANGE ELSE 0)
    + (IF And8(deltas, MODEMSTATE_MASK_RI) # 0 THEN MODEMSTATE_MASK_RI_CHANGE ELSE 0)
    + (IF And8(deltas, MODEMSTATE_MASK_CD) # 0 THEN MODEMSTATE_MASK_CD_CHANGE ELSE 0)

\* faulty variant of modemstate_notify: the mask is not looked at
modemstate_notify_unmasked(st, modemstate, force_notification) ==
    IF modemstate # st.last_modemstate \/ force_notification
    THEN [ (IF st._client_is_rfc2217 \/ force_notification
            THEN Log(rfc2217_send_subnegotiation(st, SERVER_NOTIFY_MODEMSTATE,
                                                 <<And8(modemstate, st.modemstate_mask)>>),
                     "info: NOTIFY_MODEMSTATE")
            ELSE st)
           EXCEPT !.last_modemstate = And8(modemstate, 240) ]
    ELSE st

\* if the state changed or the notification is forced: notify, save the state
modemstate_notify(st, modemstate, force_notification) ==
    IF modemstate # st.last_modemstate \/ force_notification
    THEN [ (IF (st._client_is_rfc2217 /\ And8(modemstate, st.modemstate_mask) # 0) \/ force_notification
            THEN Log(rfc2217_send_subnegotiation(st, SERVER_NOTIFY_MODEMSTATE,
                                                 <<And8(modemstate, st.modemstate_mask)>>),
                     "info: NOTIFY_MODEMSTATE")
            ELSE st)
           EXCEPT !.last_modemstate = And8(modemstate, 240) ]
    ELSE st

check_modem_lines(st, force_notification) ==
    CHOOSE r \in
        { modemstate_notify(Called(st, <<"check_modem_lines", force_notification>>),
                            modemstate, force_notification) :
            modemstate \in
              { modemstate_deltas(
                    raw, Xor8(raw, IF st.last_modemstate = NoneInt THEN 0 ELSE st.last_modemstate)) :
                raw \in { modemstate_lines(st.serial) } } } : TRUE

\* faulty variant of _client_ok: the flag is set and nothing is notified
_client_ok_quiet(st) ==
    Log([st EXCEPT !._client_is_rfc2217 = TRUE], "info: client accepts RFC 2217")

_client_ok(st) ==
    check_modem_lines(Log([st EXCEPT !._client_is_rfc2217 = TRUE], "info: client accepts RFC 2217"), TRUE)

----------------------------------------------------------------------------
(* client Serial.open: the callback of the two mandatory options            *)

mandadory_options == {"we-BINARY", "we-RFC2217"}

event_callback(st) ==
    LET m == {i \in 1..Len(st._telnet_options) : st._telnet_options[i].name \in mandadory_options}
    IN  IF Cardinality({i \in m : st._telnet_options[i].active})
           = Cardinality({i \in m : st._telnet_options[i].state # INACTIVE})
        THEN [st EXCEPT !.all_mandatory = TRUE]
        ELSE st

----------------------------------------------------------------------------
(* TelnetOption                                                             *)

TelnetOption(name, option, send_yes, send_no, ack_yes, ack_no, initial_state, activation_callback, deactivation_callback) ==
    [name |-> name, option |-> option, send_yes |-> send_yes, send_no |-> send_no,
     ack_yes |-> ack_yes, ack_no |-> ack_no, state |-> initial_state, active |-> FALSE,
     active_event |-> FALSE,
     activation_callback |-> activation_callback,
     deactivation_callback |-> deactivation_callback]

callback(st, cb) ==
    IF cb = "_client_ok" THEN _client_ok(st)
    ELSE IF cb = "event_callback" THEN event_callback(st)
    ELSE IF cb = "none" THEN st
    ELSE Called(st, <<"callback", cb>>)

\* faulty variant of activate: the answer is never sent
activate_silent(st, i, send) ==
    LET o == st._telnet_options[i]
    IN  callback([ st EXCEPT !._telnet_options[i].state = ACTIVE,
                             !._telnet_options[i].active = TRUE,
                             !._telnet_options[i].active_event = TRUE ],
                 o.activation_callback)

activate(st, i, send) ==
    LET o == st._telnet_options[i]
    IN  callback([ (IF send THEN telnet_send_option(st, o.send_yes, o.option) ELSE st)
                   EXCEPT !._telnet_options[i].state = ACTIVE,
                          !._telnet_options[i].active = TRUE,
                          !._telnet_options[i].active_event = TRUE ],
                 o.activation_callback)

\* faulty variant of deactivate: the server forgets that the client accepted
\* the com port option
deactivate_forgetting(st, i, send) ==
    LET o == st._telnet_options[i]
    IN  callback([ (IF send THEN telnet_send_option(st, o.send_no, o.option) ELSE st)
                   EXCEPT !._telnet_options[i].state = INACTIVE,
                          !._telnet_options[i].active = FALSE,
                          !._telnet_options[i].active_event = FALSE,
                          !._client_is_rfc2217 = FALSE ],
                 o.deactivation_callback)

\* faulty variant of deactivate: the event is left as it is
deactivate_event_kept(st, i, send) ==
    LET o == st._telnet_options[i]
    IN  callback([ (IF send THEN telnet_send_option(st, o.send_no, o.option) ELSE st)
                   EXCEPT !._telnet_options[i].state = INACTIVE,
                          !._telnet_options[i].active = FALSE ],
                 o.deactivation_callback)

deactivate(st, i, send) ==
    LET o == st._telnet_options[i]
    IN  callback([ (IF send THEN telnet_send_option(st, o.send_no, o.option) ELSE st)
                   EXCEPT !._telnet_options[i].state = INACTIVE,
                          !._telnet_options[i].active = FALSE,
                          !._telnet_options[i].active_event = FALSE ],
                 o.deactivation_callback)

\* faulty variant of process_incoming: every ack_yes is answered, also the
\* one that answers our request and the one for an active option
process_incoming_acknowledging(st, i, command) ==
    LET o == st._telnet_options[i]
    IN  IF command = o.ack_yes THEN
            IF o.state \in {REQUESTED, INACTIVE, ACTIVE} THEN activate(st, i, TRUE)
            ELSE IF o.state = REALLY_INACTIVE THEN telnet_send_option(st, o.send_no, o.option)
            ELSE Raise(st, "ValueError")
        ELSE IF command = o.ack_no THEN
            IF o.state \in {REQUESTED, ACTIVE} THEN deactivate(st, i, o.state = ACTIVE)
            ELSE IF o.state \in {INACTIVE, REALLY_INACTIVE} THEN st
            ELSE Raise(st, "ValueError")
        ELSE st

\* REQUESTED and INACTIVE both activate on ack_yes, REQUESTED and ACTIVE both
\* deactivate on ack_no; the answer is sent when the peer started the change
process_incoming(st, i, command) ==
    LET o == st._telnet_options[i]
    IN  IF command = o.ack_yes THEN
            IF o.state \in {REQUESTED, INACTIVE} THEN activate(st, i, o.state = INACTIVE)
            ELSE IF o.state = ACTIVE THEN st
            ELSE IF o.state = REALLY_INACTIVE THEN telnet_send_option(st, o.send_no, o.option)
            ELSE Raise(st, "ValueError")
        ELSE IF command = o.ack_no THEN
            IF o.state \in {REQUESTED, ACTIVE} THEN deactivate(st, i, o.state = ACTIVE)
            ELSE IF o.state \in {INACTIVE, REALLY_INACTIVE} THEN st
            ELSE Raise(st, "ValueError")
        ELSE st

----------------------------------------------------------------------------
(* incoming telnet commands and options (PortManager and client Serial)     *)

_telnet_process_command(st, command) ==
    Log(st, "warning: ignoring Telnet command")

RECURSIVE forward_option(_, _, _, _)
\* the loop of _telnet_negotiate_option over the options from index i on;
\* s1 is the state after option i
forward_option(st, i, command, option) ==
    IF i > Len(st._telnet_options) \/ st.exc # "none" THEN st
    ELSE CHOOSE r \in { forward_option(s1, i + 1, command, option) :
                         s1 \in { IF st._telnet_options[i].option = option
                                  THEN process_incoming(st, i, command) ELSE st } } : TRUE

\* faulty variant of _telnet_negotiate_option: an unknown option is ignored
_telnet_negotiate_option_silent(st, command, option) ==
    forward_option(st, 1, command, option)

_telnet_negotiate_option(st, command, option) ==
    IF \E i \in 1..Len(st._telnet_options) : st._telnet_options[i].option = option
    THEN forward_option(st, 1, command, option)
    ELSE IF command = WILL \/ command = DO
         THEN Log(telnet_send_option(st, (IF command = WILL THEN DONT ELSE WONT), option),
                  "warning: rejected Telnet option")
         ELSE st

----------------------------------------------------------------------------
(* PortManager._telnet_process_subnegotiation                               *)

\* faulty variant of try_set: the backup is not restored
try_set_norestore(st, attr, value, backup, what) ==
    LET s1 == setattr(st, attr, value)
    IN  IF s1.exc = "ValueError"
        THEN Log([s1 EXCEPT !.exc = "none"], "error: failed to set " \o what)
        ELSE Log(s1, "info: set " \o what)

\* try: serial.<attr> = value / except ValueError: log, serial.<attr> = backup
\* / else: log
try_set(st, attr, value, backup, what) ==
    LET s1 == setattr(st, attr, value)
    IN  IF s1.exc = "ValueError"
        THEN setattr(Log([s1 EXCEPT !.exc = "none"], "error: failed to set " \o what), attr, backup)
        ELSE Log(s1, "info: set " \o what)

\* faulty variant of set_baudrate: the request is answered but not applied
set_baudrate_ignored(st, suboption) ==
    rfc2217_send_subnegotiation(st, SERVER_SET_BAUDRATE, pack_I(st.serial.baudrate))

set_baudrate(st, suboption) ==
    LET backup == st.serial.baudrate
        arg == Slice(suboption, 2, 6)
        baudrate == unpack_I(arg)
        s1 == IF Len(arg) # 4 THEN Raise(st, "struct.error")
              ELSE IF baudrate # 0 THEN try_set(st, "baudrate", baudrate, backup, "baud rate")
              ELSE Log(st, "info: get baud rate")
    IN  IF s1.exc # "none" THEN s1
        ELSE rfc2217_send_subnegotiation(s1, SERVER_SET_BAUDRATE, pack_I(s1.serial.baudrate))

set_datasize(st, suboption) ==
    LET backup == st.serial.bytesize
        arg == Slice(suboption, 2, 3)
        datasize == arg[1]
        s1 == IF Len(arg) # 1 THEN Raise(st, "struct.error")
              ELSE IF datasize # 0 THEN try_set(st, "bytesize", datasize, backup, "data size")
              ELSE Log(st, "info: get data size")
    IN  IF s1.exc # "none" THEN s1
        ELSE rfc2217_send_subnegotiation(s1, SERVER_SET_DATASIZE, <<s1.serial.bytesize>>)

set_parity(st, suboption) ==
    LET backup == st.serial.parity
        arg == Slice(suboption, 2, 3)
        parity == arg[1]
        s1 == IF Len(arg) # 1 THEN Raise(st, "struct.error")
              ELSE IF parity # 0
                   THEN IF parity \notin DOMAIN RFC2217_REVERSE_PARITY_MAP THEN Raise(st, "KeyError")
                        ELSE try_set(st, "parity", RFC2217_REVERSE_PARITY_MAP[parity], backup, "parity")
              ELSE Log(st, "info: get parity")
    IN  IF s1.exc # "none" THEN s1
        ELSE rfc2217_send_subnegotiation(s1, SERVER_SET_PARITY, <<RFC2217_PARITY_MAP[s1.serial.parity]>>)

set_stopsize(st, suboption) ==
    LET backup == st.serial.stopbits
        arg == Slice(suboption, 2, 3)
        stopbits == arg[1]
        s1 == IF Len(arg) # 1 THEN Raise(st, "struct.error")
              ELSE IF stopbits # 0
                   THEN IF stopbits \notin DOMAIN RFC2217_REVERSE_STOPBIT_MAP THEN Raise(st, "KeyError")
                        ELSE try_set(st, "stopbits", RFC2217_REVERSE_STOPBIT_MAP[stopbits], backup, "stop bits")
              ELSE Log(st, "info: get stop bits")
    IN  IF s1.exc # "none" THEN s1
        ELSE rfc2217_send_subnegotiation(s1, SERVER_SET_STOPSIZE, <<RFC2217_STOPBIT_MAP[s1.serial.stopbits]>>)

\* faulty variant of control: the attribute is not assigned
control_noapply(st, attr, value, reply) ==
    rfc2217_send_subnegotiation(Log(st, "info: changed " \o attr), SERVER_SET_CONTROL, <<reply>>)

\* serial.<attr> = value for the flow control and control line attributes
control(st, attr, value, reply) ==
    rfc2217_send_subnegotiation(Log([st EXCEPT !.serial[attr] = value], "info: changed " \o attr),
                                SERVER_SET_CONTROL, <<reply>>)

set_control(st, suboption) ==
    LET v == Slice(suboption, 2, 3)
    IN  CASE v = <<SET_CONTROL_REQ_FLOW_SETTING>> ->
                rfc2217_send_subnegotiation(st, SERVER_SET_CONTROL,
                    IF st.serial.xonxoff THEN <<SET_CONTROL_USE_SW_FLOW_CONTROL>>
                    ELSE IF st.serial.rtscts THEN <<SET_CONTROL_USE_HW_FLOW_CONTROL>>
                    ELSE <<SET_CONTROL_USE_NO_FLOW_CONTROL>>)
          [] v = <<SET_CONTROL_USE_NO_FLOW_CONTROL>> ->
                control([st EXCEPT !.serial.xonxoff = FALSE], "rtscts", FALSE, SET_CONTROL_USE_NO_FLOW_CONTROL)
          [] v = <<SET_CONTROL_USE_SW_FLOW_CONTROL>> ->
                control(st, "xonxoff", TRUE, SET_CONTROL_USE_SW_FLOW_CONTROL)
          [] v = <<SET_CONTROL_USE_HW_FLOW_CONTROL>> ->
                control(st, "rtscts", TRUE, SET_CONTROL_USE_HW_FLOW_CONTROL)
          [] v = <<SET_CONTROL_REQ_BREAK_STATE>> -> Log(st, "warning: requested break state - not implemented")
          [] v = <<SET_CONTROL_BREAK_ON>> -> control(st, "break_condition", TRUE, SET_CONTROL_BREAK_ON)
          [] v = <<SET_CONTROL_BREAK_OFF>> -> control(st, "break_condition", FALSE, SET_CONTROL_BREAK_OFF)
          [] v = <<SET_CONTROL_REQ_DTR>> -> Log(st, "warning: requested DTR state - not implemented")
          [] v = <<SET_CONTROL_DTR_ON>> -> control(st, "dtr", TRUE, SET_CONTROL_DTR_ON)
          [] v = <<SET_CONTROL_DTR_OFF>> -> control(st, "dtr", FALSE, SET_CONTROL_DTR_OFF)
          [] v = <<SET_CONTROL_REQ_RTS>> -> Log(st, "warning: requested RTS state - not implemented")
          [] v = <<SET_CONTROL_RTS_ON>> -> control(st, "rts", TRUE, SET_CONTROL_RTS_ON)
          [] v = <<SET_CONTROL_RTS_OFF>> -> control(st, "rts", FALSE, SET_CONTROL_RTS_OFF)
          [] OTHER -> st

\* faulty variant of purge_data: the request is answered but nothing is purged
purge_data_unpurged(st, suboption) ==
    rfc2217_send_subnegotiation(st, SERVER_PURGE_DATA, Slice(suboption, 2, 3))

\* PURGE_DATA: the buffers of the device are reset as the value says
purge_data(st, suboption) ==
    LET v == Slice(suboption, 2, 3)
    IN  CASE v = <<PURGE_RECEIVE_BUFFER>> ->
                rfc2217_send_subnegotiation(Called(st, <<"reset_input_buffer">>),
                                            SERVER_PURGE_DATA, <<PURGE_RECEIVE_BUFFER>>)
          [] v = <<PURGE_TRANSMIT_BUFFER>> ->
                rfc2217_send_subnegotiation(Called(st, <<"reset_output_buffer">>),
                                            SERVER_PURGE_DATA, <<PURGE_TRANSMIT_BUFFER>>)
          [] v = <<PURGE_BOTH_BUFFERS>> ->
                rfc2217_send_subnegotiation(
                    Called(Called(st, <<"reset_input_buffer">>), <<"reset_output_buffer">>),
                    SERVER_PURGE_DATA, <<PURGE_BOTH_BUFFERS>>)
          [] OTHER -> Log(st, "error: undefined PURGE_DATA")

\* ord(suboption[2:3]) stored in a mask attribute
set_mask(st, attr, suboption) ==
    LET v == Slice(suboption, 2, 3)
    IN  IF Len(v) # 1 THEN Raise(st, "TypeError") ELSE Log([st EXCEPT ![attr] = v[1]], "info: " \o attr)

PortManager_process_subnegotiation(st, suboption) ==
    LET o == Slice(suboption, 1, 2)
        s0 == Log(st, "debug: received COM_PORT_OPTION")
    IN  IF Slice(suboption, 0, 1) = <<COM_PORT_OPTION>> THEN
            CASE o = <<SET_BAUDRATE>> -> set_baudrate(s0, suboption)
              [] o = <<SET_DATASIZE>> -> set_datasize(s0, suboption)
              [] o = <<SET_PARITY>> -> set_parity(s0, suboption)
              [] o = <<SET_STOPSIZE>> -> set_stopsize(s0, suboption)
              [] o = <<SET_CONTROL>> -> set_control(s0, suboption)
              [] o = <<NOTIFY_LINESTATE>> -> rfc2217_send_subnegotiation(s0, SERVER_NOTIFY_LINESTATE, <<0>>)
              [] o = <<NOTIFY_MODEMSTATE>> -> check_modem_lines(Log(s0, "info: request for modem state"), TRUE)
              [] o = <<FLOWCONTROL_SUSPEND>> -> Log([s0 EXCEPT !._remote_suspend_flow = TRUE], "info: suspend")
              [] o = <<FLOWCONTROL_RESUME>> -> Log([s0 EXCEPT !._remote_suspend_flow = FALSE], "info: resume")
              [] o = <<SET_LINESTATE_MASK>> -> set_mask(s0, "linstate_mask", suboption)
              [] o = <<SET_MODEMSTATE_MASK>> -> set_mask(s0, "modemstate_mask", suboption)
              [] o = <<PURGE_DATA>> -> purge_data(s0, suboption)
              [] OTHER -> Log(s0, "error: undefined COM_PORT_OPTION")
        ELSE Log(st, "warning: unknown subnegotiation")

----------------------------------------------------------------------------
(* client: TelnetSubnegotiation and Serial._telnet_process_subnegotiation   *)

\* notified: active_event has been set since the last set(); a greenlet that
\* waits for the event is woken by that, whatever becomes of the flag later
TelnetSubnegotiation(name, option, ack_option) ==
    [name |-> name, option |-> option, value |-> NoneBytes, ack_option |-> ack_option,
     state |-> INACTIVE, active_event |-> FALSE, notified |-> FALSE]

\* TelnetSubnegotiation.set of the object st._rfc2217_options[name]
set(st, name, value) ==
    Log(rfc2217_send_subnegotiation(
            [st EXCEPT !._rfc2217_options[name].value = value,
                       !._rfc2217_options[name].state = REQUESTED,
                       !._rfc2217_options[name].active_event = FALSE,
                       !._rfc2217_options[name].notified = FALSE],
            st._rfc2217_options[name].option, value),
        "debug: SB Requesting " \o name)

\* faulty variant of check_answer: the whole answer has to equal the value
check_answer_exact(st, name, suboption) ==
    LET value == st._rfc2217_options[name].value
    IN  IF value = NoneBytes THEN Raise(st, "TypeError")
        ELSE Log(IF value = suboption
                 THEN [st EXCEPT !._rfc2217_options[name].state = ACTIVE,
                                 !._rfc2217_options[name].active_event = TRUE,
                                 !._rfc2217_options[name].notified = TRUE]
                 ELSE [st EXCEPT !._rfc2217_options[name].state = REALLY_INACTIVE,
                                 !._rfc2217_options[name].active_event = FALSE],
                 "debug: SB Answer " \o name)

\* TelnetSubnegotiation.check_answer; len(None) raises TypeError
check_answer(st, name, suboption) ==
    LET value == st._rfc2217_options[name].value
    IN  IF value = NoneBytes THEN Raise(st, "TypeError")
        ELSE Log(IF value = Slice(suboption, 0, Len(value))
                 THEN [st EXCEPT !._rfc2217_options[name].state = ACTIVE,
                                 !._rfc2217_options[name].active_event = TRUE,
                                 !._rfc2217_options[name].notified = TRUE]
                 ELSE [st EXCEPT !._rfc2217_options[name].state = REALLY_INACTIVE,
                                 !._rfc2217_options[name].active_event = FALSE],
                 "debug: SB Answer " \o name)

\* the age, in clock ticks of 0.05 s, up to which the cached modem state is
\* fresh: self._modemstate_timeout.restart(0.3)
ModemFresh == 6

\* Timeout(duration) for a number, constructed when the clock reads now
Timeout(duration, now) ==
    [is_infinite |-> FALSE, is_non_blocking |-> duration = 0, duration |-> duration,
     has_target |-> TRUE, target_time |-> now + duration]

\* Timeout(None): target_time is None
Timeout_None ==
    [is_infinite |-> TRUE, is_non_blocking |-> FALSE, duration |-> NoneInt,
     has_target |-> FALSE, target_time |-> 0]

\* time_left() without max(0, delta)
time_left_unclamped(t, now) ==
    IF t.is_non_blocking THEN [left |-> 0, t |-> t]
    ELSE IF t.is_infinite THEN [left |-> NoneInt, t |-> t]
    ELSE [left |-> t.target_time - now, t |-> t]

\* Timeout.time_left() when the clock reads now: the value returned (NoneInt
\* for None) and the Timeout after the call
time_left(t, now) ==
    IF t.is_non_blocking THEN [left |-> 0, t |-> t]
    ELSE IF t.is_infinite THEN [left |-> NoneInt, t |-> t]
    ELSE LET delta == t.target_time - now
         IN  IF delta > t.duration
             THEN [left |-> t.duration, t |-> [t EXCEPT !.target_time = now + t.duration]]
             ELSE [left |-> IF delta > 0 THEN delta ELSE 0, t |-> t]

\* Timeout.expired() when the clock reads now
expired(t, now) == t.has_target /\ time_left(t, now).left <= 0

\* Timeout.restart(duration) when the clock reads now
restart(t, duration, now) ==
    [t EXCEPT !.duration = duration, !.target_time = now + duration, !.has_target = TRUE]

\* the items of st._rfc2217_options whose ack_option is the one-byte option
acked(st, option) ==
    {name \in DOMAIN st._rfc2217_options : <<st._rfc2217_options[name].ack_option>> = option}

Serial_process_subnegotiation(st, suboption) ==
    LET option == Slice(suboption, 1, 2)
    IN  IF Slice(suboption, 0, 1) = <<COM_PORT_OPTION>> THEN
            IF option = <<SERVER_NOTIFY_LINESTATE>> /\ Len(suboption) >= 3
            THEN Log([st EXCEPT !._linestate = suboption[3]], "info: NOTIFY_LINESTATE")
            ELSE IF option = <<SERVER_NOTIFY_MODEMSTATE>> /\ Len(suboption) >= 3
            THEN Log([st EXCEPT !._modemstate = suboption[3],
                                !._modemstate_timeout = restart(@, ModemFresh, st.now)],
                     "info: NOTIFY_MODEMSTATE")
            ELSE IF option = <<FLOWCONTROL_SUSPEND>> THEN [st EXCEPT !._remote_suspend_flow = TRUE]
            ELSE IF option = <<FLOWCONTROL_RESUME>> THEN [st EXCEPT !._remote_suspend_flow = FALSE]
            ELSE IF acked(st, option) # {}
            THEN check_answer(st, CHOOSE name \in acked(st, option) : TRUE,
                              Slice(suboption, 2, Len(suboption)))
            ELSE Log(st, "warning: ignoring COM_PORT_OPTION")
        ELSE Log(st, "warning: ignoring subnegotiation")

----------------------------------------------------------------------------
(* the telnet filter: PortManager.filter and the loop body of the client's  *)
(* _telnet_read_loop. st.role selects the subnegotiation handler.           *)

_telnet_process_subnegotiation(st, suboption) ==
    IF st.role = "server" THEN PortManager_process_subnegotiation(st, suboption)
    ELSE Serial_process_subnegotiation(st, suboption)

\* faulty variant of yield: the byte is dropped
yield_nothing(st, byte) == st

\* in-band data: yield byte (server) / self._read_buffer.put(byte) (client)
yield(st, byte) == [st EXCEPT !.out = Append(@, byte)]

\* after the subnegotiation handler returned: self.suboption = None
end_subnegotiation(s1) ==
    IF s1.exc # "none" THEN s1 ELSE [s1 EXCEPT !.suboption = NoneBytes, !.mode = M_NORMAL]

\* after the option handler returned
end_negotiation(s1) ==
    IF s1.exc # "none" THEN s1 ELSE [s1 EXCEPT !.mode = M_NORMAL]

filter_byte(st, byte) ==
    CASE st.mode = M_NORMAL ->
            IF byte = IAC THEN [st EXCEPT !.mode = M_IAC_SEEN]
            ELSE IF st.suboption # NoneBytes THEN [st EXCEPT !.suboption = Append(@, byte)]
            ELSE yield(st, byte)
      [] st.mode = M_IAC_SEEN ->
            IF byte = IAC THEN
                [(IF st.suboption # NoneBytes THEN [st EXCEPT !.suboption = Append(@, byte)]
                  ELSE yield(st, byte)) EXCEPT !.mode = M_NORMAL]
            ELSE IF byte = SB THEN [st EXCEPT !.suboption = <<>>, !.mode = M_NORMAL]
            ELSE IF byte = SE THEN
                IF st.suboption = NoneBytes THEN Raise(st, "TypeError")
                ELSE CHOOSE r \in { end_subnegotiation(s1) :
                                    s1 \in { _telnet_process_subnegotiation(
                                                 Called(st, <<"subnegotiation", st.suboption>>),
                                                 st.suboption) } } : TRUE
            ELSE IF byte \in {DO, DONT, WILL, WONT} THEN
                [st EXCEPT !.telnet_command = byte, !.mode = M_NEGOTIATE]
            ELSE [_telnet_process_command(Called(st, <<"command", byte>>), byte) EXCEPT !.mode = M_NORMAL]
      [] st.mode = M_NEGOTIATE ->
            CHOOSE r \in { end_negotiation(s1) :
                           s1 \in { _telnet_negotiate_option(
                                        Called(st, <<"negotiate", st.telnet_command, byte>>),
                                        st.telnet_command, byte) } } : TRUE

RECURSIVE filter(_, _)
\* the generator run to its end (or to the exception) over the chunk data;
\* s1 is the state after the first byte
filter(st, data) ==
    IF data = <<>> \/ st.exc # "none" THEN st
    ELSE CHOOSE r \in { filter(s1, Tail(data)) : s1 \in { filter_byte(st, Head(data)) } } : TRUE

\* self._read_buffer.put(byte): the byte joins the queue read() takes from
_read_buffer_put(st, byte) == [st EXCEPT !.out = Append(@, byte)]

\* faulty variant of the loop body: a doubled IAC ends the block it is in
_telnet_read_loop_byte_closing(st, byte) ==
    IF st.mode = M_NORMAL THEN
        IF byte = IAC THEN [st EXCEPT !.mode = M_IAC_SEEN]
        ELSE IF st.suboption # NoneBytes THEN [st EXCEPT !.suboption = @ \o <<byte>>]
        ELSE _read_buffer_put(st, byte)
    ELSE IF st.mode = M_IAC_SEEN THEN
        IF byte = IAC THEN
            IF st.suboption # NoneBytes
            THEN [st EXCEPT !.suboption = NoneBytes, !.mode = M_NORMAL]
            ELSE [_read_buffer_put(st, IAC) EXCEPT !.mode = M_NORMAL]
        ELSE IF byte = SB THEN [st EXCEPT !.suboption = <<>>, !.mode = M_NORMAL]
        ELSE IF byte = SE THEN
            IF st.suboption = NoneBytes THEN Raise(st, "TypeError")
            ELSE CHOOSE r \in
                   { IF s1.exc # "none" THEN s1
                     ELSE [s1 EXCEPT !.suboption = NoneBytes, !.mode = M_NORMAL] :
                     s1 \in { _telnet_process_subnegotiation(
                                  Called(st, <<"subnegotiation", st.suboption>>),
                                  st.suboption) } } : TRUE
        ELSE IF byte \in {DO, DONT, WILL, WONT} THEN
            [st EXCEPT !.telnet_command = byte, !.mode = M_NEGOTIATE]
        ELSE CHOOSE r \in
               { IF s1.exc # "none" THEN s1 ELSE [s1 EXCEPT !.mode = M_NORMAL] :
                 s1 \in { _telnet_process_command(Called(st, <<"command", byte>>), byte) } } : TRUE
    ELSE CHOOSE r \in
           { IF s1.exc # "none" THEN s1 ELSE [s1 EXCEPT !.mode = M_NORMAL] :
             s1 \in { _telnet_negotiate_option(
                          Called(st, <<"negotiate", st.telnet_command, byte>>),
                          st.telnet_command, byte) } } : TRUE

\* the body of the for loop of _telnet_read_loop for one byte: mode,
\* suboption and telnet_command are the loop's local variables; a handler
\* that raises leaves them as they were at the call
_telnet_read_loop_byte(st, byte) ==
    IF st.mode = M_NORMAL THEN
        IF byte = IAC THEN [st EXCEPT !.mode = M_IAC_SEEN]
        ELSE IF st.suboption # NoneBytes THEN [st EXCEPT !.suboption = @ \o <<byte>>]
        ELSE _read_buffer_put(st, byte)
    ELSE IF st.mode = M_IAC_SEEN THEN
        IF byte = IAC THEN
            IF st.suboption # NoneBytes
            THEN [st EXCEPT !.suboption = @ \o <<IAC>>, !.mode = M_NORMAL]
            ELSE [_read_buffer_put(st, IAC) EXCEPT !.mode = M_NORMAL]
        ELSE IF byte = SB THEN [st EXCEPT !.suboption = <<>>, !.mode = M_NORMAL]
        ELSE IF byte = SE THEN
            IF st.suboption = NoneBytes THEN Raise(st, "TypeError")
            ELSE CHOOSE r \in
                   { IF s1.exc # "none" THEN s1
                     ELSE [s1 EXCEPT !.suboption = NoneBytes, !.mode = M_NORMAL] :
                     s1 \in { _telnet_process_subnegotiation(
                                  Called(st, <<"subnegotiation", st.suboption>>),
                                  st.suboption) } } : TRUE
        ELSE IF byte \in {DO, DONT, WILL, WONT} THEN
            [st EXCEPT !.telnet_command = byte, !.mode = M_NEGOTIATE]
        ELSE CHOOSE r \in
               { IF s1.exc # "none" THEN s1 ELSE [s1 EXCEPT !.mode = M_NORMAL] :
                 s1 \in { _telnet_process_command(Called(st, <<"command", byte>>), byte) } } : TRUE
    ELSE CHOOSE r \in
           { IF s1.exc # "none" THEN s1 ELSE [s1 EXCEPT !.mode = M_NORMAL] :
             s1 \in { _telnet_negotiate_option(
                          Called(st, <<"negotiate", st.telnet_command, byte>>),
                          st.telnet_command, byte) } } : TRUE

RECURSIVE _telnet_read_loop_bytes(_, _)
\* for byte in iter_bytes(data): the loop over one chunk, to its end or to
\* the exception that ends the greenlet
_telnet_read_loop_bytes(st, data) ==
    IF data = <<>> \/ st.exc # "none" THEN st
    ELSE CHOOSE r \in { _telnet_read_loop_bytes(s1, Tail(data)) :
                        s1 \in { _telnet_read_loop_byte(st, Head(data)) } } : TRUE

----------------------------------------------------------------------------
(* bounds of the model                                                      *)

\* a peer sends its next frame when fewer than MaxInFlight bytes are in flight
MaxInFlight == 1
\* the bytes a peer puts into one subnegotiation block beyond the longest
\* block of its repertoire
MaxSub == 1
\* the longest payload of a round trip
MaxLen == 3
\* the most bytes one recv() returns when client and server are connected
MaxRecv == 4
\* the bytes of user data given to each direction of a connection
MaxData == 2
\* the baud rate requests the user makes on an open port
MaxSets == 1
\* where sends are followed part by part: the write() calls the user makes on
\* an open port; the steps of the tasks of a bridge that write to the socket
MaxWrites == 2
\* the connections a bridge accepts, one after the other
MaxSessions == 2

----------------------------------------------------------------------------
(* PortManager construction and the tcp-to-serial pump of ser2tcp           *)

PortManager_options ==
    << TelnetOption("ECHO", ECHO, WILL, WONT, DO, DONT, REQUESTED, "none", "none"),
       TelnetOption("we-SGA", SGA, WILL, WONT, DO, DONT, REQUESTED, "none", "none"),
       TelnetOption("they-SGA", SGA, DO, DONT, WILL, WONT, INACTIVE, "none", "none"),
       TelnetOption("we-BINARY", BINARY, WILL, WONT, DO, DONT, INACTIVE, "none", "none"),
       TelnetOption("they-BINARY", BINARY, DO, DONT, WILL, WONT, REQUESTED, "none", "none"),
       TelnetOption("we-RFC2217", COM_PORT_OPTION, WILL, WONT, DO, DONT, REQUESTED, "_client_ok", "none"),
       TelnetOption("they-RFC2217", COM_PORT_OPTION, DO, DONT, WILL, WONT, INACTIVE, "_client_ok", "none") >>

\* the fields PortManager.__init__ assigns
PortManager ==
    [ role |-> "server",
      _client_is_rfc2217 |-> FALSE,
      mode |-> M_NORMAL,
      suboption |-> NoneBytes,
      telnet_command |-> NoneInt,
      modemstate_mask |-> 255,
      last_modemstate |-> NoneInt,
      linstate_mask |-> 0,
      _remote_suspend_flow |-> "unset",
      _telnet_options |-> PortManager_options ]

RECURSIVE initial_requests(_, _)
\* for option in _telnet_options: if option.state is REQUESTED: send send_yes
initial_requests(st, i) ==
    IF i > Len(st._telnet_options) THEN st
    ELSE LET o == st._telnet_options[i]
         IN  initial_requests(IF o.state = REQUESTED THEN telnet_send_option(st, o.send_yes, o.option) ELSE st,
                              i + 1)

\* the running state of a step on object obj with serial device dev
Run(obj, dev) ==
    obj @@ [serial |-> dev, wr |-> <<>>, out |-> <<>>, log |-> <<>>, calls |-> <<>>, exc |-> "none",
            now |-> 0]

\* the object's fields after the step
Fields(obj, st) == [f \in DOMAIN obj |-> st[f]]

\* serial_for_config: the device opened with the default settings; the
\* driver's support for custom baud rates and the platform's CMSPAR vary
SerialDevice(special_baud_fails, cmspar) ==
    [ baudrate |-> 9600, bytesize |-> 8, parity |-> "N", stopbits |-> "one",
      xonxoff |-> FALSE, rtscts |-> FALSE, break_condition |-> FALSE,
      dtr |-> TRUE, rts |-> TRUE,
      cts |-> FALSE, dsr |-> FALSE, ri |-> FALSE, cd |-> FALSE,
      special_baud_fails |-> special_baud_fails, cmspar |-> cmspar ]

\* a remote endpoint that is no object of this program
NoClient == [role |-> "none"]

\* RawPortManager: it keeps the device and the connection and nothing else
RawPortManager == [role |-> "raw"]

\* faulty variant of manager_escape: the raw manager escapes as well
manager_escape_always(m, data) == escape(data)

\* manager.escape(data): the identity for RawPortManager
manager_escape(m, data) == IF m.role = "raw" THEN data ELSE escape(data)

\* b''.join(manager.filter(data)): RawPortManager.filter returns (data,)
manager_filter(st, data) == IF st.role = "raw" THEN [st EXCEPT !.out = @ \o data] ELSE filter(st, data)

\* one connection of a Bridge: where Bridge.handle is (at), the two greenlets
\* next to tcp-to-serial (tasks), whether the device of the connection is
\* open, the serial.close() calls, the socket, the connections accepted so
\* far, and the bytes the last serial.read() returned
Session ==
    [phase |-> "session", at |-> "listening",
     tasks |-> [serial_to_tcp |-> "none", poll_statusline |-> "none"],
     device |-> "none", closes |-> 0, sock |-> "none", accepted |-> 0, read |-> <<>>]

\* Bridge.handle up to the spawn of the tasks, for a remote peer that takes
\* whatever it is sent
Accepted(dev) ==
    /\ manager = PortManager
    /\ serial = dev
    /\ task = "running"
    /\ c2s = <<>>
    /\ recvd = <<>>
    /\ sent = initial_requests(Run(PortManager, dev), 1).wr
    /\ tty = <<>>
    /\ log = <<>>
    /\ calls = <<>>
    /\ client = NoClient
    /\ reader = "absent"
    /\ user = "absent"
    /\ s2c = <<>>
    /\ step = "handle"

\* the remote peer sends one frame of its repertoire
peer_send(frame) ==
    /\ task = "running"
    /\ reader = "absent"
    /\ Len(c2s) < MaxInFlight
    /\ c2s' = c2s \o frame
    /\ recvd' = <<>>
    /\ sent' = <<>>
    /\ tty' = <<>>
    /\ log' = <<>>
    /\ calls' = <<>>
    /\ step' = "peer_send"
    /\ UNCHANGED <<manager, serial, task, peer, rt, client, reader, user, s2c>>

\* the longest block of the peer's repertoire: its longest frame without the
\* four framing bytes
LongestBlock ==
    LET n == CHOOSE n \in 0..64 : (\A f \in peer : Len(f) <= n) /\ (\E f \in peer : Len(f) = n)
    IN  IF n > 4 THEN n - 4 ELSE 0

\* the accumulator after the chunk stays within the bound
WithinSub(st) ==
    IF st.role = "raw" THEN TRUE
    ELSE st.suboption = NoneBytes \/ Len(st.suboption) <= LongestBlock + MaxSub

\* the greenlet of task t, one of the two spawned next to tcp-to-serial, runs;
\* where the connection is not followed these run as long as tcp-to-serial
RECURSIVE LastFlow(_, _)
\* the flow control mode of the last USE_..._FLOW_CONTROL request among the
\* blocks delivered, or the one before them
LastFlow(c, before) ==
    IF c = <<>> THEN before
    ELSE LastFlow(Tail(c),
                  IF /\ Head(c)[1] = "subnegotiation"
                     /\ Slice(Head(c)[2], 0, 2) = <<COM_PORT_OPTION, SET_CONTROL>>
                     /\ Len(Head(c)[2]) >= 3
                     /\ Head(c)[2][3] \in {SET_CONTROL_USE_NO_FLOW_CONTROL, SET_CONTROL_USE_SW_FLOW_CONTROL,
                                           SET_CONTROL_USE_HW_FLOW_CONTROL}
                  THEN Head(c)[2][3] ELSE before)

\* the number of option negotiation frames among the frames written
Negotiations(wr) ==
    Cardinality({ i \in 1..Len(wr) : Len(wr[i]) = 3 /\ wr[i][1] = IAC /\ wr[i][2] \in {DO, DONT, WILL, WONT} })

Live(t) == IF rt.phase = "session" THEN rt.tasks[t] = "running" ELSE task = "running"

RECURSIVE notified(_, _)
\* the modem state byte of the last SERVER_NOTIFY_MODEMSTATE frame among the
\* frames written, or the one before them
notified(wr, before) ==
    IF wr = <<>> THEN before
    ELSE IF Slice(wr[Len(wr)], 0, 4) = <<IAC, SB, COM_PORT_OPTION, SERVER_NOTIFY_MODEMSTATE>>
         THEN wr[Len(wr)][5]
    ELSE notified(SubSeq(wr, 1, Len(wr) - 1), before)

\* the writes of the tasks of one endpoint, sendall by sendall: job[t] is the
\* queue of byte strings task t has handed to its write function and that are
\* not wholly sent, off[t] the bytes of the first of them already sent, held
\* the tasks inside `with self._write_lock`, wire the sendall parts that
\* reached the TCP send stream since it last ended on a whole string with no
\* other string begun
SendHistory(tasks, lock) ==
    [phase |-> "send", lock |-> lock, held |-> {}, job |-> [t \in tasks |-> <<>>],
     off |-> [t \in tasks |-> 0], writes |-> 0, wire |-> <<>>]

\* task t is not inside a write call
Idle(t) == rt.phase = "send" => rt.job[t] = <<>>

\* task t calls its write function once for each of frames
Written(r, t, frames) == IF r.phase = "send" THEN [r EXCEPT !.job[t] = @ \o frames] ELSE r

\* a step of a task of the bridge that wrote frames is counted
Counted(r, frames) == IF r.phase = "send" /\ frames # <<>> THEN [r EXCEPT !.writes = @ + 1] ELSE r

\* the bridge has writes left within the bound
WritesLeft == rt.phase = "send" => rt.writes < MaxWrites

\* part is the last part of its byte string
Whole(part) == part.off + part.n = Len(part.data)

\* every byte string on the stream is followed by its own next part until it
\* is whole
Contiguous(wire) ==
    /\ wire # <<>> => wire[1].off = 0
    /\ \A i \in 1..(Len(wire) - 1) :
          IF Whole(wire[i]) THEN wire[i + 1].off = 0
          ELSE /\ wire[i + 1].task = wire[i].task
               /\ wire[i + 1].data = wire[i].data
               /\ wire[i + 1].off = wire[i].off + wire[i].n

\* one round of tcp_to_serial_loop: recv returns the first k bytes in flight,
\* the filter runs over them and what it yielded is written to the device; an
\* exception out of the filter ends the task
tcp_to_serial(k) ==
    /\ task = "running"
    /\ Idle("tcp_to_serial")
    /\ WritesLeft
    /\ k \in 1..Len(c2s)
    /\ \E st \in { manager_filter(Run(manager, serial), SubSeq(c2s, 1, k)) } :
           /\ WithinSub(st)
           /\ recvd' = SubSeq(c2s, 1, k)
           /\ c2s' = SubSeq(c2s, k + 1, Len(c2s))
           /\ manager' = Fields(manager, st)
           /\ serial' = st.serial
           /\ sent' = st.wr
           /\ log' = st.log
           /\ calls' = st.calls
           /\ tty' = IF st.exc = "none" THEN st.out ELSE <<>>
           /\ task' = IF st.exc = "none" THEN "running" ELSE "dead"
           /\ rt' = IF rt.phase = "wire"
                    THEN [rt EXCEPT !.out = @ \o (IF st.exc = "none" THEN st.out ELSE <<>>),
                                    !.calls = @ \o st.calls]
                    ELSE IF rt.phase = "net"
                    THEN [rt EXCEPT !.up_out = @ \o (IF st.exc = "none" THEN st.out ELSE <<>>)]
                    ELSE IF rt.phase = "modem"
                    THEN [rt EXCEPT !.notified = notified(st.wr, @)]
                    ELSE IF rt.phase = "quiet"
                    THEN [rt EXCEPT !.server = IF reader = "absent" THEN @ ELSE @ + Negotiations(st.wr)]
                    ELSE IF rt.phase = "flow"
                    THEN [rt EXCEPT !.mode = LastFlow(st.calls, @)]
                    ELSE Counted(Written(rt, "tcp_to_serial", st.wr), st.wr)
           /\ s2c' = IF reader = "absent" THEN s2c ELSE s2c \o join(st.wr)
    /\ step' = "tcp_to_serial"
    /\ UNCHANGED <<peer, client, reader, user>>

\* one round of poll_statusline: after the sleep, check_modem_lines()
poll_statusline ==
    /\ Live("poll_statusline")
    /\ manager.role = "server"
    /\ Idle("poll_statusline")
    /\ WritesLeft
    /\ \E st \in { check_modem_lines(Run(manager, serial), FALSE) } :
           /\ manager' = Fields(manager, st)
           /\ sent' = st.wr
           /\ log' = st.log
           /\ calls' = st.calls
           /\ s2c' = IF reader = "absent" THEN s2c ELSE s2c \o join(st.wr)
           /\ rt' = IF rt.phase = "modem" THEN [rt EXCEPT !.notified = notified(st.wr, @)]
                    ELSE Counted(Written(rt, "poll_statusline", st.wr), st.wr)
    /\ recvd' = <<>>
    /\ tty' = <<>>
    /\ step' = "poll_statusline"
    /\ UNCHANGED <<serial, task, peer, c2s, client, reader, user>>

\* a modem status input of the UART changes
modem_line(line) ==
    /\ task = "running"
    /\ serial' = [serial EXCEPT ![line] = ~@]
    /\ recvd' = <<>>
    /\ sent' = <<>>
    /\ tty' = <<>>
    /\ log' = <<>>
    /\ calls' = <<>>
    /\ step' = "modem_line"
    /\ UNCHANGED <<manager, task, peer, c2s, rt, client, reader, user, s2c>>

\* the peer closes the connection: recv returns b'' and the loop ends
tcp_to_serial_eof ==
    /\ task = "running"
    /\ c2s = <<>>
    /\ task' = "returned"
    /\ recvd' = <<>>
    /\ sent' = <<>>
    /\ tty' = <<>>
    /\ log' = <<>>
    /\ calls' = <<>>
    /\ step' = "tcp_to_serial"
    /\ UNCHANGED <<manager, serial, peer, c2s, rt, client, reader, user, s2c>>

\* the listener accepts the next connection: a new device and a new manager
handle ==
    /\ task # "running"
    /\ manager' = PortManager
    /\ serial' = SerialDevice(serial.special_baud_fails, serial.cmspar)
    /\ task' = "running"
    /\ c2s' = <<>>
    /\ recvd' = <<>>
    /\ sent' = initial_requests(Run(PortManager, serial), 1).wr
    /\ tty' = <<>>
    /\ log' = <<>>
    /\ calls' = <<>>
    /\ step' = "handle"
    /\ UNCHANGED <<peer, rt, client, reader, user, s2c>>

\* Bridge.handle from the accept to gevent.joinall: the device is opened, the
\* manager constructed (PortManager sends its initial requests, and a socket
\* error there ends handle with the exception; StreamServer then closes the
\* socket), the tasks are spawned, the poll task in rfc2217 mode only
handle_spawn(mode, error) ==
    /\ rt.phase = "session"
    /\ rt.at \in {"listening", "done", "raised"}
    /\ rt.accepted < MaxSessions
    /\ error => mode = "rfc2217"
    /\ manager' = IF mode = "rfc2217" THEN PortManager ELSE RawPortManager
    /\ serial' = SerialDevice(FALSE, TRUE)
    /\ task' = IF error THEN "absent" ELSE "running"
    /\ rt' = [rt EXCEPT !.at = IF error THEN "raised" ELSE "joinall",
                        !.tasks = [serial_to_tcp |-> IF error THEN "none" ELSE "running",
                                   poll_statusline |-> IF error \/ mode # "rfc2217" THEN "none" ELSE "running"],
                        !.device = "open", !.closes = 0,
                        !.sock = IF error THEN "closed" ELSE "open",
                        !.accepted = @ + 1, !.read = <<>>]
    /\ c2s' = <<>>
    /\ recvd' = <<>>
    /\ sent' = IF mode = "rfc2217" /\ ~ error THEN initial_requests(Run(PortManager, serial), 1).wr ELSE <<>>
    /\ tty' = <<>>
    /\ log' = << "info: connection" >>
    /\ calls' = <<>>
    /\ step' = "handle_spawn"
    /\ UNCHANGED <<peer, client, reader, user, s2c>>

\* Bridge.handle after gevent.joinall(tasks, count=1) has returned: one task
\* has ended; killall, serial.close(), sock.close()
handle_teardown ==
    /\ rt.phase = "session"
    /\ rt.at = "joinall"
    /\ task # "running" \/ \E t \in DOMAIN rt.tasks : rt.tasks[t] = "exited"
    /\ task' = IF task = "running" THEN "killed" ELSE task
    /\ rt' = [rt EXCEPT !.at = "done",
                        !.tasks = [t \in DOMAIN @ |-> IF @[t] = "running" THEN "killed" ELSE @[t]],
                        !.device = "closed", !.closes = @ + 1, !.sock = "closed"]
    /\ recvd' = <<>>
    /\ sent' = <<>>
    /\ tty' = <<>>
    /\ log' = << "info: disconnection" >>
    /\ calls' = <<>>
    /\ step' = "handle_teardown"
    /\ UNCHANGED <<manager, serial, peer, c2s, client, reader, user, s2c>>

\* a serial or socket error in one of the two tasks next to tcp-to-serial:
\* the exception ends its greenlet
task_error(t) ==
    /\ rt.phase = "session"
    /\ rt.tasks[t] = "running"
    /\ rt' = [rt EXCEPT !.tasks[t] = "exited"]
    /\ recvd' = <<>>
    /\ sent' = <<>>
    /\ tty' = <<>>
    /\ log' = <<>>
    /\ calls' = <<>>
    /\ step' = "task_error"
    /\ UNCHANGED <<manager, serial, task, peer, c2s, client, reader, user, s2c>>

----------------------------------------------------------------------------
(* client Serial: construction, open() and the read loop                    *)

Serial_options ==
    << TelnetOption("ECHO", ECHO, DO, DONT, WILL, WONT, REQUESTED, "none", "none"),
       TelnetOption("we-SGA", SGA, WILL, WONT, DO, DONT, REQUESTED, "none", "none"),
       TelnetOption("they-SGA", SGA, DO, DONT, WILL, WONT, REQUESTED, "none", "none"),
       TelnetOption("they-BINARY", BINARY, DO, DONT, WILL, WONT, INACTIVE, "none", "none"),
       TelnetOption("they-RFC2217", COM_PORT_OPTION, DO, DONT, WILL, WONT, REQUESTED, "none", "none"),
       TelnetOption("we-BINARY", BINARY, WILL, WONT, DO, DONT, INACTIVE, "event_callback", "event_callback"),
       TelnetOption("we-RFC2217", COM_PORT_OPTION, WILL, WONT, DO, DONT, REQUESTED,
                    "event_callback", "event_callback") >>

\* the fields of a Serial configured with the baud rate, after the
\* assignments of open() up to the spawn of the read loop
Serial(baudrate) ==
    [ role |-> "client",
      mode |-> M_NORMAL,
      suboption |-> NoneBytes,
      telnet_command |-> NoneInt,
      all_mandatory |-> FALSE,
      _telnet_options |-> Serial_options,
      _rfc2217_options |->
          [ purge |-> TelnetSubnegotiation("purge", PURGE_DATA, SERVER_PURGE_DATA),
            control |-> TelnetSubnegotiation("control", SET_CONTROL, SERVER_SET_CONTROL),
            baudrate |-> TelnetSubnegotiation("baudrate", SET_BAUDRATE, SERVER_SET_BAUDRATE),
            datasize |-> TelnetSubnegotiation("datasize", SET_DATASIZE, SERVER_SET_DATASIZE),
            parity |-> TelnetSubnegotiation("parity", SET_PARITY, SERVER_SET_PARITY),
            stopsize |-> TelnetSubnegotiation("stopsize", SET_STOPSIZE, SERVER_SET_STOPSIZE) ],
      _linestate |-> 0,
      _modemstate |-> NoneInt,
      _modemstate_timeout |-> Timeout(-1, 0),
      _network_timeout |-> 20,
      _remote_suspend_flow |-> FALSE,
      is_open |-> TRUE,
      _ignore_set_control_answer |-> FALSE,
      _poll_modem_state |-> FALSE,
      _baudrate |-> baudrate, _bytesize |-> 8, _parity |-> "N", _stopbits |-> "one",
      _rtscts |-> FALSE, _xonxoff |-> FALSE, _dsrdtr |-> FALSE,
      _dtr_state |-> TRUE, _rts_state |-> TRUE ]

\* Serial._reconfigure_port up to the wait for the four settings
Serial_reconfigure_port(st) ==
    IF ~ (0 < st._baudrate /\ st._baudrate \div 65536 < 65536) THEN Raise(st, "ValueError")
    ELSE set(set(set(set(st, "baudrate", pack_I(st._baudrate)),
                     "datasize", <<st._bytesize>>),
                 "parity", <<RFC2217_PARITY_MAP[st._parity]>>),
             "stopsize", <<RFC2217_STOPBIT_MAP[st._stopbits]>>)

rfc2217_set_control(st, value) == set(st, "control", <<value>>)

rfc2217_send_purge(st, value) == set(st, "purge", <<value>>)

\* the events open() waits for, in the order it waits for them
open_positions == <<"all_mandatory", "settings", "flow", "dtr", "rts", "purge_in", "purge_out">>

\* the events open() waits for at a position
open_events(pos) ==
    CASE pos = "settings" -> {"baudrate", "datasize", "parity", "stopsize"}
      [] pos \in {"flow", "dtr", "rts"} -> {"control"}
      [] pos \in {"purge_in", "purge_out"} -> {"purge"}
      [] OTHER -> {}

\* rfc2217_set_control sleeps instead of waiting for the answer
open_sleeps(c, pos) == c._ignore_set_control_answer /\ pos \in {"flow", "dtr", "rts"}

\* the wait of open() at a position can return: gevent.wait and Event.wait
\* return once each event has woken the waiter, gevent.sleep always
open_ready(c, pos) ==
    IF pos = "all_mandatory" THEN c.all_mandatory
    ELSE IF open_sleeps(c, pos) THEN TRUE
    ELSE open_events(pos) # {} /\ \A name \in open_events(pos) : c._rfc2217_options[name].notified

\* every event open() waits for at a position is set
open_set(c, pos) ==
    IF pos = "all_mandatory" THEN c.all_mandatory
    ELSE open_events(pos) # {} /\ \A name \in open_events(pos) : c._rfc2217_options[name].active_event

\* what open() does when the wait at a position returns, up to its next wait
open_resume(st, pos) ==
    CASE pos = "all_mandatory" -> Serial_reconfigure_port(Log(st, "info: Negotiated options"))
      [] pos = "settings" ->
            rfc2217_set_control(Log(st, "info: Negotiated settings"),
                IF st._rtscts THEN SET_CONTROL_USE_HW_FLOW_CONTROL
                ELSE IF st._xonxoff THEN SET_CONTROL_USE_SW_FLOW_CONTROL
                ELSE SET_CONTROL_USE_NO_FLOW_CONTROL)
      [] pos = "flow" ->
            IF st._dsrdtr THEN st
            ELSE rfc2217_set_control(st, IF st._dtr_state THEN SET_CONTROL_DTR_ON ELSE SET_CONTROL_DTR_OFF)
      [] pos = "dtr" ->
            IF st._rtscts THEN st
            ELSE rfc2217_set_control(st, IF st._rts_state THEN SET_CONTROL_RTS_ON ELSE SET_CONTROL_RTS_OFF)
      [] pos = "rts" -> rfc2217_send_purge(st, PURGE_RECEIVE_BUFFER)
      [] pos = "purge_in" -> rfc2217_send_purge(st, PURGE_TRANSMIT_BUFFER)
      [] pos = "purge_out" -> st

\* the position after pos; "opened" when open() has returned
open_after(pos) ==
    IF pos = "purge_out" THEN "opened"
    ELSE open_positions[1 + CHOOSE i \in 1..Len(open_positions) : open_positions[i] = pos]

\* a client with the configured baud rate has connected and sent its initial
\* requests; the server has accepted it and sent its own
Connected(dev, baudrate) ==
    /\ manager = PortManager
    /\ serial = dev
    /\ task = "running"
    /\ client = Serial(baudrate)
    /\ reader = "running"
    /\ user = "all_mandatory"
    /\ c2s = join(initial_requests(Run(Serial(baudrate), dev), 1).wr)
    /\ s2c = join(initial_requests(Run(PortManager, dev), 1).wr)
    /\ recvd = <<>>
    /\ sent = <<>>
    /\ tty = <<>>
    /\ log = <<>>
    /\ calls = <<>>
    /\ step = "open"

\* a client has connected to a server that is no PortManager and has sent its
\* initial requests
Dialled(baudrate) ==
    /\ manager = NoClient
    /\ serial = SerialDevice(FALSE, TRUE)
    /\ task = "absent"
    /\ client = Serial(baudrate)
    /\ reader = "running"
    /\ user = "all_mandatory"
    /\ c2s = <<>>
    /\ s2c = <<>>
    /\ recvd = <<>>
    /\ sent = initial_requests(Run(Serial(baudrate), SerialDevice(FALSE, TRUE)), 1).wr
    /\ tty = <<>>
    /\ log = <<>>
    /\ calls = <<>>
    /\ step = "open"

\* the remote server sends one frame of its repertoire to the client
peer_send_client(frame) ==
    /\ reader = "running"
    /\ task = "absent"
    /\ Len(s2c) < MaxInFlight
    /\ s2c' = s2c \o frame
    /\ recvd' = <<>>
    /\ sent' = <<>>
    /\ tty' = <<>>
    /\ log' = <<>>
    /\ calls' = <<>>
    /\ step' = "peer_send"
    /\ UNCHANGED <<manager, serial, task, peer, rt, client, reader, user, c2s>>

\* faulty variant of _write_lock_acquire: the lock is handed out while held
_write_lock_shared(t) ==
    /\ rt.phase = "send"
    /\ rt.lock
    /\ t \in DOMAIN rt.job
    /\ rt.job[t] # <<>>
    /\ t \notin rt.held
    /\ rt' = [rt EXCEPT !.held = @ \cup {t}]
    /\ recvd' = <<>>
    /\ sent' = <<>>
    /\ tty' = <<>>
    /\ log' = <<>>
    /\ calls' = <<>>
    /\ step' = "_write_lock"
    /\ UNCHANGED <<manager, serial, task, peer, c2s, client, reader, user, s2c>>

\* _internal_raw_write enters `with self._write_lock`: task t, which has a
\* byte string to write, gets the lock when no task holds it
_write_lock_acquire(t) ==
    /\ rt.phase = "send"
    /\ rt.lock
    /\ t \in DOMAIN rt.job
    /\ rt.job[t] # <<>>
    /\ rt.held = {}
    /\ rt' = [rt EXCEPT !.held = {t}]
    /\ recvd' = <<>>
    /\ sent' = <<>>
    /\ tty' = <<>>
    /\ log' = <<>>
    /\ calls' = <<>>
    /\ step' = "_write_lock"
    /\ UNCHANGED <<manager, serial, task, peer, c2s, client, reader, user, s2c>>

\* socket.sendall of task t goes on: the socket takes the next n bytes of the
\* byte string; after the last byte sendall returns, the lock is released
sendall(t, n) ==
    /\ rt.phase = "send"
    /\ t \in DOMAIN rt.job
    /\ rt.job[t] # <<>>
    /\ rt.lock => t \in rt.held
    /\ n \in 1..(Len(Head(rt.job[t])) - rt.off[t])
    /\ \E part \in { [task |-> t, data |-> Head(rt.job[t]), off |-> rt.off[t], n |-> n] } :
           /\ rt' = [rt EXCEPT
                  !.wire = IF @ # <<>> /\ Whole(@[Len(@)]) /\ (\A u \in DOMAIN rt.off : rt.off[u] = 0)
                           THEN <<part>> ELSE Append(@, part),
                  !.off[t] = IF Whole(part) THEN 0 ELSE @ + n,
                  !.job[t] = IF Whole(part) THEN Tail(@) ELSE @,
                  !.held = IF Whole(part) THEN @ \ {t} ELSE @]
           /\ sent' = << SubSeq(part.data, part.off + 1, part.off + n) >>
    /\ recvd' = <<>>
    /\ tty' = <<>>
    /\ log' = <<>>
    /\ calls' = <<>>
    /\ step' = "sendall"
    /\ UNCHANGED <<manager, serial, task, peer, c2s, client, reader, user, s2c>>

\* sendall of task t on a socket without a write lock finds the socket full
\* while the sendall of another task is suspended on it: gevent lets one
\* greenlet wait for a socket and raises ConcurrentObjectUseError in the
\* second; the greenlet of t ends
sendall_busy(t) ==
    /\ rt.phase = "send"
    /\ ~ rt.lock
    /\ t \in DOMAIN rt.job
    /\ rt.job[t] # <<>>
    /\ rt.off[t] = 0
    /\ \E u \in DOMAIN rt.off : u # t /\ rt.off[u] > 0
    /\ rt' = [rt EXCEPT !.job[t] = <<>>]
    /\ task' = "dead"
    /\ recvd' = <<>>
    /\ sent' = <<>>
    /\ tty' = <<>>
    /\ log' = <<>>
    /\ calls' = <<>>
    /\ step' = "sendall_busy"
    /\ UNCHANGED <<manager, serial, peer, c2s, client, reader, user, s2c>>

\* open() goes on from a wait whose event is set to its next wait
open ==
    /\ user \in {open_positions[i] : i \in 1..Len(open_positions)}
    /\ open_ready(client, user)
    /\ Idle("user")
    /\ \E st \in { open_resume(Run(client, serial), user) } :
           /\ client' = IF st.exc = "none" THEN Fields(client, st)
                        ELSE [Fields(client, st) EXCEPT !.is_open = FALSE]
           /\ user' = IF st.exc = "none" THEN open_after(user) ELSE "failed"
           /\ c2s' = IF task = "absent" THEN c2s ELSE c2s \o join(st.wr)
           /\ sent' = st.wr
           /\ log' = st.log
           /\ rt' = Written(rt, "user", st.wr)
           /\ reader' = IF st.exc = "none" THEN reader ELSE "closed"
    /\ recvd' = <<>>
    /\ tty' = <<>>
    /\ calls' = <<>>
    /\ step' = "open"
    /\ UNCHANGED <<manager, serial, task, peer, s2c>>

\* the network timeout of the wait open() is in runs out before its event is
\* set: the SerialException leaves open() through `except: self.close();
\* raise`, which shuts the socket down and joins the reader
open_timeout ==
    /\ user \in {open_positions[i] : i \in 1..Len(open_positions)}
    /\ ~ open_set(client, user)
    /\ ~ open_sleeps(client, user)
    /\ Idle("user")
    /\ user' = "failed"
    /\ reader' = "closed"
    /\ client' = [client EXCEPT !.is_open = FALSE]
    /\ recvd' = <<>>
    /\ sent' = <<>>
    /\ tty' = <<>>
    /\ log' = << "SerialException" >>
    /\ calls' = <<>>
    /\ step' = "open_timeout"
    /\ UNCHANGED <<manager, serial, task, peer, c2s, rt, s2c>>

RECURSIVE LastNotified(_, _)
\* the byte of the last SERVER_NOTIFY_MODEMSTATE block among the recorded
\* calls, or byte when there is none
LastNotified(c, byte) ==
    IF c = <<>> THEN byte
    ELSE LastNotified(Tail(c),
             IF /\ Head(c)[1] = "subnegotiation"
                /\ Len(Head(c)[2]) >= 3
                /\ Head(c)[2][1] = COM_PORT_OPTION
                /\ Head(c)[2][2] = SERVER_NOTIFY_MODEMSTATE
             THEN Head(c)[2][3] ELSE byte)

\* the step runs at the reading of the clock the history keeps
Clocked(st) == [st EXCEPT !.now = IF rt.phase = "poll" THEN rt.now ELSE 0]

\* the subnegotiation blocks among the recorded calls
Blocks(c) == { c[i][2] : i \in { j \in 1..Len(c) : c[j][1] = "subnegotiation" } }

\* one round of _telnet_read_loop: recv returns the first k bytes in flight,
\* in-band bytes go to the read buffer; an exception ends the greenlet
_telnet_read_loop(k) ==
    /\ reader = "running"
    /\ client.is_open
    /\ Idle("reader")
    /\ k \in 1..Len(s2c)
    /\ \E st \in { filter(Clocked(Run(client, serial)), SubSeq(s2c, 1, k)) } :
           /\ WithinSub(st)
           /\ recvd' = SubSeq(s2c, 1, k)
           /\ s2c' = SubSeq(s2c, k + 1, Len(s2c))
           /\ client' = Fields(client, st)
           /\ reader' = IF st.exc = "none" THEN "running" ELSE "dead"
           /\ c2s' = IF task = "absent" THEN c2s ELSE c2s \o join(st.wr)
           /\ sent' = st.wr
           /\ log' = st.log
           /\ calls' = st.calls
           /\ rt' = IF rt.phase = "net" THEN [rt EXCEPT !.down_out = @ \o st.out]
                    ELSE IF rt.phase = "control" THEN [rt EXCEPT !.blocks = @ \cup Blocks(st.calls)]
                    ELSE IF rt.phase = "read" THEN [rt EXCEPT !.queue = @ \o st.out]
                    ELSE IF rt.phase = "poll" THEN [rt EXCEPT !.last_byte = LastNotified(st.calls, @),
                                                             !.last_at = IF LastNotified(st.calls, NoneInt) # NoneInt
                                                                         THEN rt.now ELSE @]
                    ELSE IF rt.phase = "quiet"
                    THEN [rt EXCEPT !.client = IF task = "absent" THEN @ ELSE @ + Negotiations(st.wr)]
                    ELSE Written(rt, "reader", st.wr)
    /\ tty' = <<>>
    /\ step' = "_telnet_read_loop"
    /\ UNCHANGED <<manager, serial, task, peer, user>>

\* Serial.write(data) on the open port
Serial_write(data) ==
    /\ user = "opened"
    /\ rt.phase \in {"net", "send", "control"}
    /\ rt.phase = "net" => Len(rt.up_in) + Len(data) <= MaxData
    /\ rt.phase = "send" => rt.job["user"] = <<>> /\ rt.writes < MaxWrites
    /\ c2s' = IF rt.phase = "net" THEN c2s \o replace(data, IAC, IAC_DOUBLED) ELSE c2s
    /\ rt' = IF rt.phase = "net" THEN [rt EXCEPT !.up_in = @ \o data]
             ELSE IF rt.phase = "control" THEN rt
             ELSE [Written(rt, "user", << replace(data, IAC, IAC_DOUBLED) >>) EXCEPT !.writes = @ + 1]
    /\ sent' = << replace(data, IAC, IAC_DOUBLED) >>
    /\ recvd' = <<>>
    /\ tty' = <<>>
    /\ log' = <<>>
    /\ calls' = <<>>
    /\ step' = "write"
    /\ UNCHANGED <<manager, serial, task, peer, client, reader, user, s2c>>

\* the user requests a baud rate on the open port:
\* _rfc2217_port_settings['baudrate'].set(struct.pack('!I', n))
baudrate_set(n) ==
    /\ user = "opened"
    /\ rt.phase = "net"
    /\ rt.sets < MaxSets
    /\ \E st \in { set(Run(client, serial), "baudrate", pack_I(n)) } :
           /\ client' = Fields(client, st)
           /\ c2s' = c2s \o join(st.wr)
           /\ sent' = st.wr
           /\ log' = st.log
    /\ rt' = [rt EXCEPT !.sets = @ + 1]
    /\ recvd' = <<>>
    /\ tty' = <<>>
    /\ calls' = <<>>
    /\ step' = "set"
    /\ UNCHANGED <<manager, serial, task, peer, reader, user, s2c>>

\* serial_to_tcp: the device has src to read; it is escaped and sent
serial_to_tcp(src) ==
    /\ Live("serial_to_tcp")
    /\ rt.phase \in {"net", "send", "session"}
    /\ rt.phase = "net" => Len(rt.down_in) + Len(src) <= MaxData
    /\ rt.phase = "send" => rt.job["serial_to_tcp"] = <<>> /\ rt.writes < MaxWrites
    /\ s2c' = IF rt.phase = "net" THEN s2c \o manager_escape(manager, src) ELSE s2c
    /\ rt' = IF rt.phase = "net" THEN [rt EXCEPT !.down_in = @ \o src]
             ELSE IF rt.phase = "session" THEN [rt EXCEPT !.read = src]
             ELSE [Written(rt, "serial_to_tcp", << manager_escape(manager, src) >>) EXCEPT !.writes = @ + 1]
    /\ sent' = << manager_escape(manager, src) >>
    /\ recvd' = <<>>
    /\ tty' = <<>>
    /\ log' = <<>>
    /\ calls' = <<>>
    /\ step' = "serial_to_tcp"
    /\ UNCHANGED <<manager, serial, task, peer, c2s, client, reader, user>>

----------------------------------------------------------------------------
(* the frames of the remote peers                                           *)

\* IAC SB <payload, IAC doubled> IAC SE
Sub(payload) == <<IAC, SB>> \o escape(payload) \o <<IAC, SE>>

\* option 24 (terminal type) is in no option table of the program
FilterFrames ==
    { <<65>>, <<IAC, IAC>>, <<IAC, NOP>>, <<IAC, SE>>, <<IAC, SB>>,
      Sub(<<COM_PORT_OPTION, NOTIFY_LINESTATE>>), Sub(<<BINARY, IAC>>),
      Sub(<<COM_PORT_OPTION, SET_BAUDRATE>>) }
    \cup { <<IAC, c, o>> : c \in {DO, DONT, WILL, WONT}, o \in {COM_PORT_OPTION, 24} }

PortFrames ==
    { <<65>> }
    \cup { Sub(<<COM_PORT_OPTION, SET_BAUDRATE>> \o v) :
              v \in { pack_I(0), pack_I(115200), pack_I(255), <<0, 1>>, pack_I(9600) \o <<0>> } }
    \cup { Sub(<<COM_PORT_OPTION, SET_DATASIZE>> \o v) : v \in { <<0>>, <<7>>, <<9>>, <<>> } }
    \cup { Sub(<<COM_PORT_OPTION, SET_PARITY>> \o v) : v \in { <<0>>, <<3>>, <<4>>, <<9>> } }
    \cup { Sub(<<COM_PORT_OPTION, SET_STOPSIZE>> \o v) : v \in { <<0>>, <<2>>, <<9>> } }

ControlFrames ==
    { <<65>>, Sub(<<COM_PORT_OPTION, SET_CONTROL>>) }
    \cup { Sub(<<COM_PORT_OPTION, SET_CONTROL, v>>) : v \in 0..19 }

\* PURGE_DATA with the defined values, with undefined ones, with none and with
\* a trailing byte
PurgeFrames ==
    { <<65>>, Sub(<<COM_PORT_OPTION, PURGE_DATA>>), Sub(<<COM_PORT_OPTION, PURGE_DATA, 3, 1>>) }
    \cup { Sub(<<COM_PORT_OPTION, PURGE_DATA, v>>) : v \in 0..4 }

\* the negotiation of the com port option, polls of the modem state and modem
\* state masks: none, all, the line bits, one change bit
ModemFrames ==
    { <<IAC, DO, COM_PORT_OPTION>>, <<IAC, DONT, COM_PORT_OPTION>>,
      Sub(<<COM_PORT_OPTION, NOTIFY_MODEMSTATE>>) }
    \cup { Sub(<<COM_PORT_OPTION, SET_MODEMSTATE_MASK, m>>) : m \in {0, 255, 240, 1} }

\* the negotiation of the com port option from both sides, a poll of the
\* modem state and a mask that lets nothing through
ClientOkFrames ==
    { <<IAC, c, COM_PORT_OPTION>> : c \in {DO, DONT, WILL, WONT} }
    \cup { Sub(<<COM_PORT_OPTION, NOTIFY_MODEMSTATE>>), Sub(<<COM_PORT_OPTION, SET_MODEMSTATE_MASK, 0>>) }

\* the negotiation of the com port option, a poll of the modem state and a
\* mask of one change bit
DeltaFrames ==
    { <<IAC, DO, COM_PORT_OPTION>>, Sub(<<COM_PORT_OPTION, NOTIFY_MODEMSTATE>>),
      Sub(<<COM_PORT_OPTION, SET_MODEMSTATE_MASK, 1>>) }

\* the modem status inputs
ModemLines == {"cts", "dsr", "ri", "cd"}

NoRt == [phase |-> "off"]

\* the history of the modem state notifications: the byte last notified
ModemHistory == [phase |-> "modem", notified |-> 0]

\* the bytes of the round-trip payloads: a letter and the telnet characters
\* the filter looks at
RtBytes == {65, SE, SB, IAC}

RECURSIVE Payloads(_)
\* the byte strings over RtBytes of length up to n
Payloads(n) ==
    IF n = 0 THEN { <<>> }
    ELSE Payloads(n - 1) \cup { Append(b, x) : b \in Payloads(n - 1), x \in RtBytes }

\* a payload is escaped and put on the wire towards the server
rt_escape ==
    /\ rt.phase = "payload"
    /\ task = "running"
    /\ c2s' = c2s \o escape(rt.b)
    /\ rt' = [rt EXCEPT !.phase = "wire"]
    /\ recvd' = <<>>
    /\ sent' = <<>>
    /\ tty' = <<>>
    /\ log' = <<>>
    /\ calls' = <<>>
    /\ step' = "write"
    /\ UNCHANGED <<manager, serial, task, peer, client, reader, user, s2c>>

Init ==
    /\ peer = FilterFrames
    /\ Accepted(SerialDevice(FALSE, TRUE))
    /\ rt = NoRt

InitPort ==
    /\ peer = PortFrames
    /\ \E f \in BOOLEAN, c \in BOOLEAN : Accepted(SerialDevice(f, c))
    /\ rt = NoRt

InitControl ==
    /\ peer = ControlFrames
    /\ Accepted(SerialDevice(FALSE, TRUE))
    /\ rt = NoRt

InitPurge ==
    /\ peer = PurgeFrames
    /\ Accepted(SerialDevice(FALSE, TRUE))
    /\ rt = NoRt

InitModem ==
    /\ peer = ModemFrames
    /\ Accepted(SerialDevice(FALSE, TRUE))
    /\ rt = NoRt

InitDelta ==
    /\ peer = DeltaFrames
    /\ Accepted(SerialDevice(FALSE, TRUE))
    /\ rt = ModemHistory

InitClientOk ==
    /\ peer = ClientOkFrames
    /\ Accepted(SerialDevice(FALSE, TRUE))
    /\ rt = NoRt

InitRoundTrip ==
    /\ \E b \in Payloads(MaxLen) :
          /\ rt = [phase |-> "payload", b |-> b, out |-> <<>>, calls |-> <<>>]
          /\ peer = { escape(b) }
    /\ Accepted(SerialDevice(FALSE, TRUE))

\* the user data of one write or one read of the device
Data == { <<65>>, <<IAC>>, <<65, IAC>>, <<IAC, 65>> }

\* the baud rates of the client: a standard one and two custom ones, the
\* second with 0xFF bytes in its encoding
BaudRequests == {115200, 255, 16777215}

NetHistory == [phase |-> "net", up_in |-> <<>>, up_out |-> <<>>, down_in |-> <<>>, down_out |-> <<>>,
               sets |-> 0]

\* the longest frames a client sends
SerialFrames == { Sub(<<COM_PORT_OPTION, SET_BAUDRATE>> \o pack_I(n)) : n \in BaudRequests }

\* option negotiation frames for a registered option and for option 24
OptionFrames ==
    { <<65>> } \cup { <<IAC, c, o>> : c \in {DO, DONT, WILL, WONT}, o \in {COM_PORT_OPTION, 24} }

InitHandshake ==
    /\ peer = SerialFrames
    /\ rt = NoRt
    /\ \E n \in {9600, 115200} : Connected(SerialDevice(FALSE, TRUE), n)

InitData ==
    /\ peer = SerialFrames
    /\ rt = NetHistory
    /\ Connected(SerialDevice(FALSE, TRUE), 9600)

InitBaud ==
    /\ peer = SerialFrames
    /\ rt = NetHistory
    /\ \E f \in BOOLEAN, n \in {9600, 255} : Connected(SerialDevice(f, TRUE), n)

InitOptions ==
    /\ peer = OptionFrames
    /\ rt = NoRt
    /\ \/ Accepted(SerialDevice(FALSE, TRUE))
       \/ Dialled(9600)

NextHandshake ==
    \/ \E k \in 1..MaxRecv : tcp_to_serial(k)
    \/ \E k \in 1..MaxRecv : _telnet_read_loop(k)

NextData ==
    \/ \E k \in 1..MaxRecv : tcp_to_serial(k)
    \/ \E k \in 1..MaxRecv : _telnet_read_loop(k)
    \/ open
    \/ \E data \in Data : Serial_write(data)
    \/ \E data \in Data : serial_to_tcp(data)

NextBaud ==
    \/ \E k \in 1..MaxRecv : tcp_to_serial(k)
    \/ \E k \in 1..MaxRecv : _telnet_read_loop(k)
    \/ open
    \/ \E n \in BaudRequests \cup {0} : baudrate_set(n)

NextOptions ==
    \/ \E frame \in peer : peer_send(frame)
    \/ \E k \in 1..MaxRecv : tcp_to_serial(k)
    \/ \E frame \in peer : peer_send_client(frame)
    \/ \E k \in 1..MaxRecv : _telnet_read_loop(k)
    \/ open

\* a client and a server exchange their initial option requests; each loop
\* goes on whenever its socket has bytes
SpecHandshake ==
    /\ InitHandshake
    /\ [][NextHandshake]_vars
    /\ WF_vars(\E k \in 1..MaxRecv : tcp_to_serial(k))
    /\ WF_vars(\E k \in 1..MaxRecv : _telnet_read_loop(k))
\* a client opens the port and user data flows in both directions
SpecData == InitData /\ [][NextData]_vars
\* a client opens the port and requests baud rates
SpecBaud == InitBaud /\ [][NextBaud]_vars
\* a server, or a client, under a peer that negotiates options
SpecOptions == InitOptions /\ [][NextOptions]_vars

Next ==
    \/ \E frame \in peer : peer_send(frame)
    \/ \E k \in 1..(MaxInFlight + 12) : tcp_to_serial(k)
    \/ tcp_to_serial_eof
    \/ handle

\* a server under a peer that exercises the filter and the option negotiation
Spec == Init /\ [][Next]_vars
\* a server under a peer that sets the port parameters
SpecPort == InitPort /\ [][Next]_vars
\* a server under a peer that sends SET_CONTROL requests
SpecControl == InitControl /\ [][Next]_vars
\* a server under a peer that sends PURGE_DATA requests
SpecPurge == InitPurge /\ [][Next]_vars

NextModem ==
    \/ \E frame \in peer : peer_send(frame)
    \/ \E k \in { Len(c2s) } : tcp_to_serial(k)
    \/ poll_statusline
    \/ \E line \in ModemLines : modem_line(line)

\* a server with its modem poll, under changing modem lines and a peer that
\* negotiates, polls and sets masks; recv returns all the bytes in flight
SpecModem == InitModem /\ [][NextModem]_vars
NextDelta ==
    \/ \E frame \in peer : peer_send(frame)
    \/ \E k \in { Len(c2s) } : tcp_to_serial(k)
    \/ poll_statusline
    \/ \E line \in {"cts", "cd"} : modem_line(line)

\* the same with the history of the notifications, for two of the lines
SpecDelta == InitDelta /\ [][NextDelta]_vars

\* a server with its modem poll under a peer that accepts and refuses the com
\* port option
SpecClientOk == InitClientOk /\ [][NextModem]_vars

\* the tasks of a client that write to its socket
ClientTasks == {"user", "reader"}

\* what a remote server sends to a client that opens its port: its agreement
\* to the COM-PORT option, a request for an option the client does not know,
\* and the acknowledgements of the client's settings, controls and purges
SendFrames ==
    { <<IAC, DO, COM_PORT_OPTION>>, <<IAC, WILL, 24>>,
      Sub(<<COM_PORT_OPTION, SERVER_SET_BAUDRATE>> \o pack_I(9600)),
      Sub(<<COM_PORT_OPTION, SERVER_SET_DATASIZE, 8>>),
      Sub(<<COM_PORT_OPTION, SERVER_SET_PARITY, 1>>),
      Sub(<<COM_PORT_OPTION, SERVER_SET_STOPSIZE, 1>>),
      Sub(<<COM_PORT_OPTION, SERVER_SET_CONTROL, SET_CONTROL_USE_NO_FLOW_CONTROL>>),
      Sub(<<COM_PORT_OPTION, SERVER_SET_CONTROL, SET_CONTROL_DTR_ON>>),
      Sub(<<COM_PORT_OPTION, SERVER_SET_CONTROL, SET_CONTROL_RTS_ON>>),
      Sub(<<COM_PORT_OPTION, SERVER_PURGE_DATA, PURGE_RECEIVE_BUFFER>>),
      Sub(<<COM_PORT_OPTION, SERVER_PURGE_DATA, PURGE_TRANSMIT_BUFFER>>) }

\* one write() of the user with a byte to escape
SendData == { <<65, IAC>> }

\* the sizes of the next part the socket takes from task t: of a new byte
\* string its first byte or all of it, of a begun one all that is left
SendParts(t) ==
    IF rt.phase # "send" \/ rt.job[t] = <<>> THEN {}
    ELSE IF rt.off[t] = 0 THEN {1, Len(Head(rt.job[t]))}
    ELSE {Len(Head(rt.job[t])) - rt.off[t]}

InitSend ==
    /\ peer = SendFrames
    /\ rt = SendHistory(ClientTasks, TRUE)
    /\ Dialled(9600)

NextSend ==
    \/ \E frame \in peer : peer_send_client(frame)
    \/ \E k \in { Len(s2c) } : _telnet_read_loop(k)
    \/ open
    \/ \E data \in SendData : Serial_write(data)
    \/ \E t \in ClientTasks : _write_lock_acquire(t)
    \/ \E t \in ClientTasks : \E n \in SendParts(t) : sendall(t, n)

\* a client opens its port against a remote server and writes; every send
\* of its two tasks is followed part by part
SpecSend == InitSend /\ [][NextSend]_vars

\* the tasks of a bridge that write to the client's socket
ServerTasks == {"tcp_to_serial", "serial_to_tcp", "poll_statusline"}

\* a client that takes up the com port option and asks for an option the
\* server does not know
ServerSendFrames == { <<IAC, DO, COM_PORT_OPTION>>, <<IAC, WILL, 24>> }

InitServerSend ==
    /\ peer = ServerSendFrames
    /\ rt = SendHistory(ServerTasks, FALSE)
    /\ Accepted(SerialDevice(FALSE, TRUE))

NextServerSend ==
    \/ \E frame \in peer : peer_send(frame)
    \/ \E k \in { Len(c2s) } : tcp_to_serial(k)
    \/ poll_statusline
    \/ \E line \in {"cts"} : modem_line(line)
    \/ \E src \in SendData : serial_to_tcp(src)
    \/ \E t \in ServerTasks : \E n \in SendParts(t) : sendall(t, n)
    \/ \E t \in ServerTasks : sendall_busy(t)

\* the three tasks of a bridge write to the client's socket; every send is
\* followed part by part
SpecServerSend == InitServerSend /\ [][NextServerSend]_vars

\* a client of a bridge sends data with an IAC, a negotiation, and an IAC SE
\* that ends the tcp-to-serial task of a PortManager
BridgeFrames == { <<65, IAC>>, <<IAC, DO, COM_PORT_OPTION>>, <<IAC, SE>> }

\* the modes of a bridge
Modes == {"rfc2217", "raw"}

InitBridge ==
    /\ peer = BridgeFrames
    /\ rt = Session
    /\ manager = NoClient
    /\ serial = SerialDevice(FALSE, TRUE)
    /\ task = "absent"
    /\ client = NoClient
    /\ reader = "absent"
    /\ user = "absent"
    /\ c2s = <<>>
    /\ s2c = <<>>
    /\ recvd = <<>>
    /\ sent = <<>>
    /\ tty = <<>>
    /\ log = <<>>
    /\ calls = <<>>
    /\ step = "serve_forever"

NextBridge ==
    \/ \E mode \in Modes, error \in BOOLEAN : handle_spawn(mode, error)
    \/ \E frame \in peer : peer_send(frame)
    \/ \E k \in { Len(c2s) } : tcp_to_serial(k)
    \/ tcp_to_serial_eof
    \/ \E src \in SendData : serial_to_tcp(src)
    \/ poll_statusline
    \/ \E line \in {"cts"} : modem_line(line)
    \/ \E t \in {"serial_to_tcp", "poll_statusline"} : task_error(t)
    \/ handle_teardown

\* a bridge in rfc2217 or raw mode serves connections one after the other,
\* each from the accept to the teardown
SpecBridge == InitBridge /\ [][NextBridge]_vars

\* what a remote server answers to the client's requests: it agrees to or
\* refuses the com port option and binary mode, and acknowledges the baud rate
OpenFrames ==
    { <<IAC, c, o>> : c \in {DO, DONT}, o \in {COM_PORT_OPTION, BINARY} }
    \cup { Sub(<<COM_PORT_OPTION, SERVER_SET_BAUDRATE>> \o pack_I(9600)) }

InitOpen ==
    /\ peer = OpenFrames
    /\ rt = NoRt
    /\ Dialled(9600)

NextOpen ==
    \/ \E frame \in peer : peer_send_client(frame)
    \/ \E k \in { Len(s2c) } : _telnet_read_loop(k)
    \/ open
    \/ open_timeout

\* a client opens its port against a remote server that answers, refuses or
\* stays silent
SpecOpen == InitOpen /\ [][NextOpen]_vars

\* what a remote server sends while the client sets the port up: its
\* agreement to the com port option, the acknowledgements of the four
\* settings, and a SERVER_SET_BAUDRATE with another rate
ReconfigureFrames ==
    { <<IAC, DO, COM_PORT_OPTION>>,
      Sub(<<COM_PORT_OPTION, SERVER_SET_BAUDRATE>> \o pack_I(9600)),
      Sub(<<COM_PORT_OPTION, SERVER_SET_BAUDRATE>> \o pack_I(115200)),
      Sub(<<COM_PORT_OPTION, SERVER_SET_DATASIZE, 8>>),
      Sub(<<COM_PORT_OPTION, SERVER_SET_PARITY, 1>>),
      Sub(<<COM_PORT_OPTION, SERVER_SET_STOPSIZE, 1>>) }

InitReconfigure ==
    /\ peer = ReconfigureFrames
    /\ rt = NoRt
    /\ Dialled(9600)

\* a client opens its port against a remote server that acknowledges the
\* settings in any order, or not
SpecReconfigure == InitReconfigure /\ [][NextOpen]_vars

NextRoundTrip ==
    \/ rt_escape
    \/ \E k \in 1..(2 * MaxLen + 2) : tcp_to_serial(k)

\* a fresh server that receives one escaped payload, in any chunks
SpecRoundTrip == InitRoundTrip /\ [][NextRoundTrip]_vars

----------------------------------------------------------------------------
(* The filter of the design: a reference for the claims about framing. One  *)
(* octet moves (mode, open block?) as the per-octet rules say.              *)

RefByte(r, byte) ==
    CASE r.mode = M_NORMAL -> [r EXCEPT !.mode = IF byte = IAC THEN M_IAC_SEEN ELSE M_NORMAL]
      [] r.mode = M_IAC_SEEN ->
            IF byte \in {DO, DONT, WILL, WONT} THEN [r EXCEPT !.mode = M_NEGOTIATE]
            ELSE [mode |-> M_NORMAL,
                  open |-> IF byte = SB THEN TRUE ELSE IF byte = SE THEN FALSE ELSE r.open]
      [] r.mode = M_NEGOTIATE -> [r EXCEPT !.mode = M_NORMAL]

RECURSIVE RefFilter(_, _)
RefFilter(r, data) == IF data = <<>> THEN r ELSE RefFilter(RefByte(r, Head(data)), Tail(data))

\* a step of the pump that consumed a chunk
Pumped == task = "running" /\ step' = "tcp_to_serial" /\ recvd' # <<>>

\* the last step delivered exactly this subnegotiation block and nothing else
Delivered(c, block) == c = << <<"subnegotiation", block>> >>

\* the last step delivered exactly one com-port subnegotiation of this code
ComPort(c, code) ==
    /\ Len(c) = 1
    /\ c[1][1] = "subnegotiation"
    /\ Slice(c[1][2], 0, 2) = <<COM_PORT_OPTION, code>>

\* the payload of the block the last step delivered
Payload(c) == Slice(c[1][2], 2, Len(c[1][2]))

\* the reply frame of the server for a com-port code and value
Reply(code, value) == <<IAC, SB, COM_PORT_OPTION, code>> \o escape(value) \o <<IAC, SE>>

\* the device rejects the value for the attribute
Rejects(attr, value) == _reconfigure_port([serial EXCEPT ![attr] = value]) = "ValueError"

\* a step of the client's read loop that consumed a chunk
Read == reader = "running" /\ step' = "_telnet_read_loop"

\* a is a prefix of b
IsPrefix(a, b) == Len(a) <= Len(b) /\ SubSeq(b, 1, Len(a)) = a

\* the state of the named option of an endpoint
OptionState(obj, name) ==
    obj._telnet_options[CHOOSE i \in 1..Len(obj._telnet_options) :
                            obj._telnet_options[i].name = name].state

----------------------------------------------------------------------------
----------------------------------------------------------------------------
(* C2: IAC round trip. When the filter of a fresh PortManager has consumed  *)
(* escape(b), it has yielded exactly b, has called no command, negotiation  *)
(* or subnegotiation handler and is in NORMAL with no block open.           *)
C2_IacRoundTrip ==
    (rt.phase = "wire" /\ c2s = <<>>) =>
        /\ rt.out = rt.b
        /\ rt.calls = <<>>
        /\ manager.mode = M_NORMAL
        /\ manager.suboption = NoneBytes
        /\ task = "running"

\* a payload with an IAC in it went through, in more than one chunk
C2_Witness ==
    /\ rt.phase = "wire"
    /\ c2s = <<>>
    /\ rt.b = <<IAC, 65, IAC>>
    /\ rt.out = rt.b
    /\ Len(recvd) < Len(escape(rt.b))

----------------------------------------------------------------------------
(* C3: after every complete IAC sequence the filter is back in NORMAL and   *)
(* goes on with the following bytes: over any chunk the mode moves as the   *)
(* per-octet rules say and the pump stays alive.                            *)
C3_NormalAfterSequence ==
    [][Pumped =>
        /\ manager'.mode = RefFilter([mode |-> manager.mode, open |-> manager.suboption # NoneBytes],
                                     recvd').mode
        /\ task' = "running"]_vars

(* C4: the accumulator is non-nil exactly while an SB ... SE block is in    *)
(* progress, and a byte that arrives while it is non-nil is not emitted as  *)
(* in-band data.                                                            *)
C4_AccumulatorIffBlock ==
    [][Pumped =>
        /\ (manager'.suboption # NoneBytes)
              = RefFilter([mode |-> manager.mode, open |-> manager.suboption # NoneBytes], recvd').open
        /\ (manager.suboption # NoneBytes /\ Len(recvd') = 1) => tty' = <<>>]_vars

----------------------------------------------------------------------------
(* C5: initial handshake. Once client and server have sent their initial    *)
(* option requests over the two FIFO channels, the exchange eventually      *)
(* reaches a state where the server has client_is_rfc2217 and the client    *)
(* has we-RFC2217 and they-RFC2217 ACTIVE.                                  *)

Negotiated ==
    /\ manager._client_is_rfc2217
    /\ OptionState(client, "we-RFC2217") = ACTIVE
    /\ OptionState(client, "they-RFC2217") = ACTIVE

C5_Handshake == <>Negotiated

\* the handshake is complete and nothing is in flight
C5_Witness == Negotiated /\ c2s = <<>> /\ s2c = <<>>

----------------------------------------------------------------------------
(* C6: a WILL or DO for an option code that no registered TelnetOption has  *)
(* is answered with exactly one negative reply (DONT for WILL, WONT for DO) *)
(* and changes no option; a WONT or DONT for it is not answered. On the     *)
(* server and on the client.                                                *)

C6_Step(before, after) ==
    LET command == calls'[1][2]
        option == calls'[1][3]
    IN  (/\ Len(calls') = 1
         /\ calls'[1][1] = "negotiate"
         /\ \A i \in 1..Len(before._telnet_options) : before._telnet_options[i].option # option)
        => /\ after._telnet_options = before._telnet_options
           /\ command = WILL => sent' = << <<IAC, DONT, option>> >>
           /\ command = DO => sent' = << <<IAC, WONT, option>> >>
           /\ command \in {WONT, DONT} => sent' = <<>>

C6_UnknownOptionRejected ==
    [][/\ Pumped => C6_Step(manager, manager')
       /\ Read => C6_Step(client, client')]_vars

\* the server has answered WILL 24 with DONT 24
C6_Witness ==
    /\ step = "tcp_to_serial"
    /\ calls = << <<"negotiate", WILL, 24>> >>
    /\ sent = << <<IAC, DONT, 24>> >>

----------------------------------------------------------------------------
(* C7 as stated: for every value n of a SET_BAUDRATE the server sets the    *)
(* baud rate to n when n is nonzero and leaves it when n is 0, replies with *)
(* one SERVER_SET_BAUDRATE carrying the current rate, and the client's      *)
(* 'baudrate' subnegotiation becomes ACTIVE on that reply.                  *)

BaudReply == sent' = << Reply(SERVER_SET_BAUDRATE, pack_I(serial'.baudrate)) >>

----------------------------------------------------------------------------
(* C8: when the device rejects a requested baud rate, data size, parity or  *)
(* stop bit value, the step logs the failure, the parameter has its         *)
(* previous value afterwards and the one reply carries the current value.   *)

Failed(what) == \E i \in 1..Len(log') : log'[i] = "error: failed to set " \o what

C8_Step ==
    LET c == calls'
        v == Payload(c)
    IN  /\ (ComPort(c, SET_BAUDRATE) /\ Len(v) >= 4 /\ unpack_I(v) # 0 /\ Rejects("baudrate", unpack_I(v)))
              => Failed("baud rate")
        /\ (ComPort(c, SET_DATASIZE) /\ Len(v) >= 1 /\ v[1] # 0 /\ Rejects("bytesize", v[1]))
              => Failed("data size")
        /\ (ComPort(c, SET_PARITY) /\ Len(v) >= 1 /\ v[1] \in 1..5
                /\ Rejects("parity", RFC2217_REVERSE_PARITY_MAP[v[1]]))
              => Failed("parity")
        /\ (ComPort(c, SET_STOPSIZE) /\ Len(v) >= 1 /\ v[1] \in 1..3
                /\ Rejects("stopbits", RFC2217_REVERSE_STOPBIT_MAP[v[1]]))
              => Failed("stop bits")
        /\ (ComPort(c, SET_BAUDRATE) /\ Failed("baud rate"))
              => /\ serial'.baudrate = serial.baudrate
                 /\ sent' = << Reply(SERVER_SET_BAUDRATE, pack_I(serial.baudrate)) >>
        /\ (ComPort(c, SET_DATASIZE) /\ Failed("data size"))
              => /\ serial'.bytesize = serial.bytesize
                 /\ sent' = << Reply(SERVER_SET_DATASIZE, <<serial.bytesize>>) >>
        /\ (ComPort(c, SET_PARITY) /\ Failed("parity"))
              => /\ serial'.parity = serial.parity
                 /\ sent' = << Reply(SERVER_SET_PARITY, <<RFC2217_PARITY_MAP[serial.parity]>>) >>
        /\ (ComPort(c, SET_STOPSIZE) /\ Failed("stop bits"))
              => /\ serial'.stopbits = serial.stopbits
                 /\ sent' = << Reply(SERVER_SET_STOPSIZE, <<RFC2217_STOPBIT_MAP[serial.stopbits]>>) >>

----------------------------------------------------------------------------
(* C9: a SET_BAUDRATE/SET_DATASIZE/SET_PARITY/SET_STOPSIZE block with a     *)
(* payload of the wrong length, or a parity or stop size outside its        *)
(* enumeration, leaves the device as it is and the pump keeps running.      *)

Malformed(c) ==
    LET v == Payload(c)
    IN  \/ ComPort(c, SET_BAUDRATE) /\ Len(v) # 4
        \/ ComPort(c, SET_DATASIZE) /\ Len(v) # 1
        \/ ComPort(c, SET_PARITY) /\ (Len(v) # 1 \/ v[1] \notin 0..5)
        \/ ComPort(c, SET_STOPSIZE) /\ (Len(v) # 1 \/ v[1] \notin 0..3)

C9_ParseFailuresContained ==
    [][(Pumped /\ Malformed(calls')) => (serial' = serial /\ task' = "running")]_vars

----------------------------------------------------------------------------
(* C10: each SET_CONTROL set-request is applied to the device and echoed in *)
(* exactly one SERVER_SET_CONTROL frame; REQ_FLOW_SETTING changes nothing   *)
(* and is answered with a flow control mode the device is in.               *)

C10_Step ==
    LET c == calls'
        v == Payload(c)[1]
        echo == sent' = << Reply(SERVER_SET_CONTROL, <<v>>) >>
    IN  (ComPort(c, SET_CONTROL) /\ Len(Payload(c)) = 1) =>
        /\ v = SET_CONTROL_USE_NO_FLOW_CONTROL => (echo /\ ~serial'.xonxoff /\ ~serial'.rtscts)
        /\ v = SET_CONTROL_USE_SW_FLOW_CONTROL => (echo /\ serial'.xonxoff)
        /\ v = SET_CONTROL_USE_HW_FLOW_CONTROL => (echo /\ serial'.rtscts)
        /\ v = SET_CONTROL_BREAK_ON => (echo /\ serial'.break_condition)
        /\ v = SET_CONTROL_BREAK_OFF => (echo /\ ~serial'.break_condition)
        /\ v = SET_CONTROL_DTR_ON => (echo /\ serial'.dtr)
        /\ v = SET_CONTROL_DTR_OFF => (echo /\ ~serial'.dtr)
        /\ v = SET_CONTROL_RTS_ON => (echo /\ serial'.rts)
        /\ v = SET_CONTROL_RTS_OFF => (echo /\ ~serial'.rts)
        /\ v = SET_CONTROL_REQ_FLOW_SETTING =>
              /\ serial' = serial
              /\ \/ sent' = << Reply(SERVER_SET_CONTROL, <<SET_CONTROL_USE_SW_FLOW_CONTROL>>) >> /\ serial.xonxoff
                 \/ sent' = << Reply(SERVER_SET_CONTROL, <<SET_CONTROL_USE_HW_FLOW_CONTROL>>) >> /\ serial.rtscts
                 \/ sent' = << Reply(SERVER_SET_CONTROL, <<SET_CONTROL_USE_NO_FLOW_CONTROL>>) >>
                        /\ ~serial.xonxoff /\ ~serial.rtscts

C10_SetControlAppliedAndEchoed == [][Pumped => C10_Step]_vars

\* DTR was switched off and the request echoed
C10_Witness ==
    /\ ComPort(calls, SET_CONTROL)
    /\ Payload(calls) = <<SET_CONTROL_DTR_OFF>>
    /\ ~serial.dtr
    /\ sent = << Reply(SERVER_SET_CONTROL, <<SET_CONTROL_DTR_OFF>>) >>

----------------------------------------------------------------------------
(* C11: every SET_CONTROL request with a value 0..19 is answered with one   *)
(* SERVER_SET_CONTROL frame, the state queries REQ_BREAK_STATE, REQ_DTR and *)
(* REQ_RTS and the inbound-flow values 13..19 included; the inbound-flow    *)
(* values leave the device as it is.                                        *)

\* the step sent exactly one SERVER_SET_CONTROL frame
ControlAcknowledged ==
    /\ Len(sent') = 1
    /\ Slice(sent'[1], 0, 4) = <<IAC, SB, COM_PORT_OPTION, SERVER_SET_CONTROL>>

C11_EveryControlAcknowledged ==
    [][(Pumped /\ ComPort(calls', SET_CONTROL) /\ Len(Payload(calls')) = 1)
          => /\ ControlAcknowledged
             /\ Payload(calls')[1] \in 13..19 => serial' = serial]_vars

----------------------------------------------------------------------------
(* C12: PURGE_DATA with value 1 calls only reset_input_buffer, with value 2 *)
(* only reset_output_buffer, with value 3 both; the server then sends       *)
(* exactly one SERVER_PURGE_DATA frame with the same value. Any other value *)
(* purges nothing and is not answered.                                      *)

\* a record of a subnegotiation block among the calls of a step
IsBlock(r) == r[1] = "subnegotiation"

\* the step delivered PURGE_DATA blocks and no other block
Purge(c) ==
    /\ SelectSeq(c, IsBlock) # <<>>
    /\ \A i \in 1..Len(c) : IsBlock(c[i]) => Slice(c[i][2], 0, 2) = <<COM_PORT_OPTION, PURGE_DATA>>

\* the calls of the device the claim has for a PURGE_DATA value
Resets(v) ==
    CASE v = <<PURGE_RECEIVE_BUFFER>> -> << <<"reset_input_buffer">> >>
      [] v = <<PURGE_TRANSMIT_BUFFER>> -> << <<"reset_output_buffer">> >>
      [] v = <<PURGE_BOTH_BUFFERS>> -> << <<"reset_input_buffer">>, <<"reset_output_buffer">> >>
      [] OTHER -> <<>>

\* the replies the claim has for a PURGE_DATA value
PurgeReplies(v) ==
    IF v \in { <<PURGE_RECEIVE_BUFFER>>, <<PURGE_TRANSMIT_BUFFER>>, <<PURGE_BOTH_BUFFERS>> }
    THEN << Reply(SERVER_PURGE_DATA, v) >>
    ELSE <<>>

RECURSIVE PurgeCalls(_)
\* each block followed by the calls of the device for its value
PurgeCalls(blocks) ==
    IF blocks = <<>> THEN <<>>
    ELSE << blocks[1] >> \o Resets(Slice(blocks[1][2], 2, 3)) \o PurgeCalls(Tail(blocks))

RECURSIVE PurgeSent(_)
\* the replies for the blocks, in their order
PurgeSent(blocks) ==
    IF blocks = <<>> THEN <<>>
    ELSE PurgeReplies(Slice(blocks[1][2], 2, 3)) \o PurgeSent(Tail(blocks))

\* for every PURGE_DATA block of the chunk exactly the resets of its value
\* are called and exactly its reply is sent
C12_Step ==
    Purge(calls') =>
        /\ calls' = PurgeCalls(SelectSeq(calls', IsBlock))
        /\ sent' = PurgeSent(SelectSeq(calls', IsBlock))

C12_PurgeData == [][Pumped => C12_Step]_vars

\* both buffers were purged and the request answered
C12_Witness ==
    /\ calls = << <<"subnegotiation", <<COM_PORT_OPTION, PURGE_DATA, PURGE_BOTH_BUFFERS>> >>,
                  <<"reset_input_buffer">>, <<"reset_output_buffer">> >>
    /\ sent = << Reply(SERVER_PURGE_DATA, <<PURGE_BOTH_BUFFERS>>) >>

----------------------------------------------------------------------------
(* Modem state notification: the quantities of one call of                  *)
(* check_modem_lines, read off the step that made the call.                 *)

\* a round of the modem poll
Polled == task = "running" /\ step' = "poll_statusline"

\* the step made exactly one call of check_modem_lines, with this force flag
Checked(force) ==
    /\ Cardinality({ i \in 1..Len(calls') : calls'[i][1] = "check_modem_lines" }) = 1
    /\ \E i \in 1..Len(calls') : calls'[i] = <<"check_modem_lines", force>>

\* the raw line byte the call reads from the device
RawByte ==
      (IF serial.cts THEN 16 ELSE 0) + (IF serial.dsr THEN 32 ELSE 0)
    + (IF serial.ri THEN 64 ELSE 0) + (IF serial.cd THEN 128 ELSE 0)

\* the byte saved by the previous call, 0 before the first
LastByte == IF manager.last_modemstate = NoneInt THEN 0 ELSE manager.last_modemstate

\* the change bit of the line with weight w
DeltaBit(w) == IF Bit(RawByte, w) # Bit(LastByte, w) THEN w \div 16 ELSE 0

\* the modem state byte of the call: line bits and change bits
ModemByte == RawByte + DeltaBit(16) + DeltaBit(32) + DeltaBit(64) + DeltaBit(128)

\* the modem state differs from the one saved
ModemChanged == manager.last_modemstate = NoneInt \/ ModemByte # manager.last_modemstate

\* the SERVER_NOTIFY_MODEMSTATE frames the step sent
Notifications ==
    { i \in 1..Len(sent') :
        Slice(sent'[i], 0, 4) = <<IAC, SB, COM_PORT_OPTION, SERVER_NOTIFY_MODEMSTATE>> }

(* C13 as stated: a call of check_modem_lines emits a notification iff      *)
(* (the modem state differs from the last one or the call is forced) and    *)
(* the client is RFC 2217 and the masked modem state is not 0.              *)
C13_Stated ==
    [][\A force \in BOOLEAN :
         ((Pumped \/ Polled) /\ Checked(force))
            => (Notifications # {}
                  <=> /\ ModemChanged \/ force
                      /\ manager'._client_is_rfc2217
                      /\ And8(ModemByte, manager.modemstate_mask) # 0)]_vars

(* C13: a call of check_modem_lines emits a notification iff the call is    *)
(* forced, or the modem state differs from the last one and the client is   *)
(* RFC 2217 and the masked modem state is not 0; a poll that sees the lines *)
(* of the previous call emits nothing.                                      *)
C13_NotificationCondition ==
    [][\A force \in BOOLEAN :
         ((Pumped \/ Polled) /\ Checked(force))
            => /\ Notifications # {}
                  <=> \/ force
                      \/ /\ ModemChanged
                         /\ manager'._client_is_rfc2217
                         /\ And8(ModemByte, manager.modemstate_mask) # 0
               /\ (Polled /\ RawByte = manager.last_modemstate) => Notifications = {}]_vars

\* a poll has notified the RFC 2217 client of a change of CTS
C13_Witness ==
    /\ step = "poll_statusline"
    /\ manager._client_is_rfc2217
    /\ serial.cts
    /\ sent = << Reply(SERVER_NOTIFY_MODEMSTATE, <<17>>) >>

----------------------------------------------------------------------------
(* C14: in every notification the line bits of the payload are those of the *)
(* raw line byte m1, and the change bit of each line is set iff the line    *)
(* differs between m1 and the byte notified before (0 before the first      *)
(* notification).                                                           *)

\* the payload of the one notification the step sent
NotifiedByte == sent'[CHOOSE i \in Notifications : TRUE][5]

C14_ModemDelta ==
    [][((Pumped \/ Polled) /\ Cardinality(Notifications) = 1)
          => /\ NotifiedByte \div 16 = RawByte \div 16
             /\ \A w \in {16, 32, 64, 128} :
                   Bit(NotifiedByte, w \div 16) = 1 <=> Bit(rt.notified, w) # Bit(RawByte, w)]_vars

----------------------------------------------------------------------------
(* C15: client_is_rfc2217 is false at construction and becomes true in the  *)
(* step in which we-RFC2217 or they-RFC2217 becomes ACTIVE for the first    *)
(* time, and in no other; in that step exactly one modem state notification *)
(* is sent, whatever the modem lines and the mask are.                      *)

\* one of the two com-port options of the server is ACTIVE
Rfc2217Active(m) == OptionState(m, "we-RFC2217") = ACTIVE \/ OptionState(m, "they-RFC2217") = ACTIVE

C15_Step ==
    /\ (~manager._client_is_rfc2217 /\ Rfc2217Active(manager'))
          => /\ manager'._client_is_rfc2217
             /\ Cardinality(Notifications) = 1
    /\ (~manager._client_is_rfc2217 /\ manager'._client_is_rfc2217) => Rfc2217Active(manager')
    /\ manager._client_is_rfc2217 => manager'._client_is_rfc2217

C15_ClientOk ==
    /\ ~manager._client_is_rfc2217
    /\ ~Rfc2217Active(manager)
    /\ [][C15_Step]_vars

\* the client has accepted the com port option while no line was up and no
\* line had changed, and was notified of the modem state 0
C15_Witness ==
    /\ step = "tcp_to_serial"
    /\ manager._client_is_rfc2217
    /\ calls = << <<"negotiate", DO, COM_PORT_OPTION>>, <<"check_modem_lines", TRUE>> >>
    /\ ~serial.cts /\ ~serial.dsr /\ ~serial.ri /\ ~serial.cd
    /\ sent = << Reply(SERVER_NOTIFY_MODEMSTATE, <<0>>) >>

\* C16: on the client every write to the socket goes through
\* _internal_raw_write under the write lock, so each byte string a task
\* writes (a frame of the reader's negotiation answers, of open() and the
\* setters, or the escaped data of write()) is on the send stream in one
\* piece, also when sendall is suspended part-way and the other task wants to
\* write meanwhile
C16_ClientWritesContiguous ==
    rt.phase = "send" /\ rt.lock => Contiguous(rt.wire) /\ Cardinality(rt.held) <= 1

\* the user's send is suspended part-way while the reader has an answer to
\* write
C16_Witness ==
    /\ rt.phase = "send"
    /\ rt.lock
    /\ rt.held = {"user"}
    /\ rt.off["user"] > 0
    /\ rt.job["reader"] # <<>>
    /\ rt.wire # <<>>
    /\ ~ Whole(rt.wire[Len(rt.wire)])

\* C17: on the server each byte string a task of the bridge writes to the
\* client's socket (the escaped serial data of serial-to-tcp, the replies of
\* tcp-to-serial, the notifications of the modem poll) is on the send stream
\* in one piece
C17_ServerWritesContiguous ==
    rt.phase = "send" /\ ~ rt.lock => Contiguous(rt.wire)

\* the connection of the bridge has ended: handle() has returned or raised
Ended == rt.phase = "session" /\ rt.at \in {"done", "raised"}

\* a step in which a task of the connection reads or writes
TaskIO == step' \in {"tcp_to_serial", "serial_to_tcp", "poll_statusline", "task_error"}

\* C18: when a connection on which a device was opened has ended, whether a
\* task exited, the peer closed, a serial or socket error occurred or the
\* initial option requests could not be sent, no task is left running, the
\* device has been closed exactly once and the socket is closed; and no task
\* of the connection does I/O afterwards
C18_Teardown ==
    /\ [](Ended =>
            /\ task # "running"
            /\ \A t \in DOMAIN rt.tasks : rt.tasks[t] # "running"
            /\ rt.device = "closed"
            /\ rt.closes = 1
            /\ rt.sock = "closed")
    /\ [][Ended => ~ TaskIO]_vars

\* the bridge runs in raw mode
Raw == rt.phase = "session" /\ manager.role = "raw"

\* C19: in raw mode every chunk read from the socket, 0xFF included, is
\* written to the device as it is, every chunk read from the device is
\* written to the socket as it is, the server writes nothing else to the
\* socket, and there is no modem-poll task; a modem-poll task runs only in
\* rfc2217 mode while the connection is up
C19_RawMode ==
    /\ [](rt.phase = "session" /\ rt.tasks["poll_statusline"] = "running"
             => manager.role = "server" /\ rt.at = "joinall" /\ rt.sock = "open")
    /\ [](Raw => rt.tasks["poll_statusline"] = "none")
    /\ [][Raw' =>
             /\ step' = "tcp_to_serial" /\ recvd' # <<>> => tty' = recvd' /\ sent' = <<>>
             /\ step' = "serial_to_tcp" => sent' = << rt'.read >>
             /\ step' \notin {"tcp_to_serial", "serial_to_tcp"} => sent' = <<>> /\ tty' = <<>>
             /\ step' # "poll_statusline"]_vars

\* in raw mode a chunk with 0xFF has come from the socket
C19_Witness ==
    /\ Raw
    /\ step = "tcp_to_serial"
    /\ recvd = <<65, IAC>>
    /\ tty = <<65, IAC>>

\* C20: the wait of open() for the mandatory options ends in one of two ways:
\* with we-RFC2217 active open() goes on and sends its SET_ subnegotiations;
\* otherwise, the peer silent or having refused, open() fails, the socket is
\* closed and nothing is sent
C20_OpenNegotiation ==
    [][user = "all_mandatory" /\ user' # "all_mandatory" =>
          IF OptionState(client, "we-RFC2217") = ACTIVE
          THEN user' = "settings" /\ sent' # <<>>
          ELSE user' = "failed" /\ reader' = "closed" /\ sent' = <<>>]_vars

\* the sub-options of the four port settings
Settings == {"baudrate", "datasize", "parity", "stopsize"}

\* the four frames _reconfigure_port writes for the settings of the client
SettingFrames ==
    << <<IAC, SB, COM_PORT_OPTION, SET_BAUDRATE>> \o escape(pack_I(client._baudrate)) \o <<IAC, SE>>,
       <<IAC, SB, COM_PORT_OPTION, SET_DATASIZE, client._bytesize, IAC, SE>>,
       <<IAC, SB, COM_PORT_OPTION, SET_PARITY, RFC2217_PARITY_MAP[client._parity], IAC, SE>>,
       <<IAC, SB, COM_PORT_OPTION, SET_STOPSIZE, RFC2217_STOPBIT_MAP[client._stopbits], IAC, SE>> >>

\* C21: _reconfigure_port writes the four SET_ frames, and its wait for the
\* settings returns successfully only with all four sub-options ACTIVE;
\* otherwise open() fails
C21_Reconfigure ==
    /\ [][user = "all_mandatory" /\ user' = "settings" => sent' = SettingFrames]_vars
    /\ [][user = "settings" /\ user' # "settings" =>
             IF \A name \in Settings : client._rfc2217_options[name].state = ACTIVE
             THEN user' = "flow"
             ELSE user' = "failed"]_vars

\* ---------------------------------------------------------------------
\* Control requests on an open port
\* ---------------------------------------------------------------------

\* requests of a control value the user makes on the open port
MaxControls == 2

\* the answer of an RFC 2217 server to a subnegotiation the client wrote
Ack(frame) == [frame EXCEPT ![4] = @ + 100]

RECURSIVE negotiated(_, _, _)
\* open() from its i-th wait on against a server that acknowledges every
\* request as it was made
negotiated(c, dev, i) ==
    IF i > Len(open_positions) THEN c
    ELSE LET st == open_resume(Run(c, dev), open_positions[i])
             c1 == Fields(c, st)
             acks == [j \in 1..Len(st.wr) |-> Ack(st.wr[j])]
             c2 == IF acks = <<>> THEN c1 ELSE Fields(c1, filter(Run(c1, dev), join(acks)))
         IN  negotiated(c2, dev, i + 1)

\* the Serial after open() has returned
Opened(baudrate, dev) ==
    negotiated(Fields(Serial(baudrate), filter(Run(Serial(baudrate), dev), <<IAC, DO, COM_PORT_OPTION>>)),
               dev, 1)

\* the history of the control requests: the value of the last request, its
\* frames not yet on the socket, the subnegotiation blocks received between
\* the call and the send (early) and since the send (blocks), and how the
\* request returned
ControlHistory ==
    [phase |-> "control", sets |-> 0, value |-> NoneInt, pending |-> <<>>,
     early |-> {}, blocks |-> {}, returned |-> "none"]

\* TelnetSubnegotiation.wait returns at once whatever the event (the wait left out)
wait_ready_unchecked(c, name) == TRUE

\* TelnetSubnegotiation.wait can return: the event has woken the waiter
wait_ready(c, name) == c._rfc2217_options[name].notified

\* the user changes a control line of the open port:
\* rfc2217_set_control(value) up to its wait or its sleep, or, when the
\* socket is not writable (blocked), up to the sendall in which set() yields
Serial_set_control(value, blocked) ==
    /\ user = "opened"
    /\ rt.phase = "control"
    /\ rt.sets < MaxControls
    /\ \E st \in { rfc2217_set_control(Run(client, serial), value) } :
           /\ client' = Fields(client, st)
           /\ sent' = IF blocked THEN <<>> ELSE st.wr
           /\ log' = IF blocked THEN <<>> ELSE st.log
           /\ rt' = [rt EXCEPT !.sets = @ + 1, !.value = value, !.early = {}, !.blocks = {},
                               !.pending = IF blocked THEN st.wr ELSE <<>>, !.returned = "none"]
    /\ user' = IF blocked THEN "control_send"
               ELSE IF client._ignore_set_control_answer THEN "control_sleep" ELSE "control_wait"
    /\ recvd' = <<>>
    /\ tty' = <<>>
    /\ calls' = <<>>
    /\ step' = "set_control"
    /\ UNCHANGED <<manager, serial, task, peer, c2s, reader, s2c>>

\* the socket is writable again: the sendall of set() puts the request on
\* the socket and rfc2217_set_control goes on to its wait or its sleep
Serial_set_control_sent ==
    /\ rt.phase = "control"
    /\ user = "control_send"
    /\ sent' = rt.pending
    /\ rt' = [rt EXCEPT !.pending = <<>>, !.early = rt.blocks, !.blocks = {}]
    /\ user' = IF client._ignore_set_control_answer THEN "control_sleep" ELSE "control_wait"
    /\ recvd' = <<>>
    /\ tty' = <<>>
    /\ log' = <<>>
    /\ calls' = <<>>
    /\ step' = "set_control_sent"
    /\ UNCHANGED <<manager, serial, task, peer, c2s, client, reader, s2c>>

\* rfc2217_set_control returns: item.wait() was woken, or gevent.sleep(0.1)
\* is over
Serial_set_control_return ==
    /\ rt.phase = "control"
    /\ \/ user = "control_sleep"
       \/ user = "control_wait" /\ wait_ready(client, "control")
    /\ user' = "opened"
    /\ rt' = [rt EXCEPT !.returned = "normal"]
    /\ recvd' = <<>>
    /\ sent' = <<>>
    /\ tty' = <<>>
    /\ log' = <<>>
    /\ calls' = <<>>
    /\ step' = "set_control_return"
    /\ UNCHANGED <<manager, serial, task, peer, c2s, client, reader, s2c>>

\* the network timeout of item.wait() runs out before the event woke the
\* waiter: SerialException
Serial_set_control_timeout ==
    /\ rt.phase = "control"
    /\ user = "control_wait"
    /\ ~ client._rfc2217_options["control"].notified
    /\ user' = "opened"
    /\ rt' = [rt EXCEPT !.returned = "timeout"]
    /\ recvd' = <<>>
    /\ sent' = <<>>
    /\ tty' = <<>>
    /\ log' = << "SerialException" >>
    /\ calls' = <<>>
    /\ step' = "set_control_timeout"
    /\ UNCHANGED <<manager, serial, task, peer, c2s, client, reader, s2c>>

\* what the remote server sends to a client that changes its control lines
LineFrames ==
    { Sub(<<COM_PORT_OPTION, SERVER_SET_CONTROL, SET_CONTROL_DTR_ON>>),
      Sub(<<COM_PORT_OPTION, SERVER_SET_CONTROL, SET_CONTROL_DTR_OFF>>),
      Sub(<<COM_PORT_OPTION, SERVER_SET_BAUDRATE>> \o pack_I(9600)) }

\* the control values the user requests
LineValues == { SET_CONTROL_DTR_ON, SET_CONTROL_DTR_OFF }

\* an open port, with or without the ign_set_control option of the URL
InitLine ==
    /\ peer = LineFrames
    /\ rt = ControlHistory
    /\ manager = NoClient
    /\ serial = SerialDevice(FALSE, TRUE)
    /\ task = "absent"
    /\ \E ign \in BOOLEAN :
           client = [Opened(9600, SerialDevice(FALSE, TRUE)) EXCEPT !._ignore_set_control_answer = ign]
    /\ reader = "running"
    /\ user = "opened"
    /\ c2s = <<>>
    /\ s2c = <<>>
    /\ recvd = <<>>
    /\ sent = <<>>
    /\ tty = <<>>
    /\ log = <<>>
    /\ calls = <<>>
    /\ step = "open"

NextLine ==
    \/ \E frame \in peer : peer_send_client(frame)
    \/ \E k \in { Len(s2c) } : _telnet_read_loop(k)
    \/ \E value \in LineValues : \E blocked \in BOOLEAN : Serial_set_control(value, blocked)
    \/ Serial_set_control_sent
    \/ Serial_set_control_return
    \/ Serial_set_control_timeout
    \/ \E data \in SendData : Serial_write(data)

SpecLine == InitLine /\ [][NextLine]_vars

\* block acknowledges the control value
Acknowledges(block, value) ==
    /\ Len(block) >= 3
    /\ block[1] = COM_PORT_OPTION
    /\ block[2] = SERVER_SET_CONTROL
    /\ block[3] = value

\* C22: without ign_set_control a control request returns normally only
\* when a SERVER_SET_CONTROL block with the requested value has been received
\* since the request was sent, so that block precedes whatever the caller
\* writes after the return; with ign_set_control the request returns after
\* its sleep, never waiting for an answer and never timing out
C22_SetControl ==
    /\ [][step' = "set_control_return" /\ ~ client._ignore_set_control_answer =>
             \E b \in rt'.blocks : Acknowledges(b, rt.value)]_vars
    /\ [][step' = "write" /\ rt.returned = "normal" /\ ~ client._ignore_set_control_answer =>
             \E b \in rt.blocks : Acknowledges(b, rt.value)]_vars
    /\ [][client._ignore_set_control_answer =>
             /\ user' # "control_wait"
             /\ step' # "set_control_timeout"
             /\ (user = "control_sleep" /\ user' # user => step' = "set_control_return")]_vars

\* C22, amended: the block with the requested value has been received since
\* the request was made, that is since set() cleared the event, which is
\* before the request is on the socket when the sendall of set() had to wait
C22_SetControlSinceCall ==
    /\ [][step' = "set_control_return" /\ ~ client._ignore_set_control_answer =>
             \E b \in rt'.early \cup rt'.blocks : Acknowledges(b, rt.value)]_vars
    /\ [][step' = "write" /\ rt.returned = "normal" /\ ~ client._ignore_set_control_answer =>
             \E b \in rt.early \cup rt.blocks : Acknowledges(b, rt.value)]_vars
    /\ [][client._ignore_set_control_answer =>
             /\ user' # "control_wait"
             /\ step' # "set_control_timeout"
             /\ (user = "control_sleep" /\ user' # user => step' = "set_control_return")]_vars

\* a request returned on its acknowledgement in the default mode, and the
\* user wrote afterwards
C22_Witness ==
    /\ step = "write"
    /\ rt.returned = "normal"
    /\ ~ client._ignore_set_control_answer
    /\ \E b \in rt.blocks : Acknowledges(b, rt.value)

\* a request returned with no answer received in the ignore mode
C22_WitnessIgnore ==
    /\ step = "set_control_return"
    /\ client._ignore_set_control_answer
    /\ rt.early \cup rt.blocks = {}

\* ---------------------------------------------------------------------
\* Reading from and closing the open port
\* ---------------------------------------------------------------------

\* items the read buffer holds at most before the peer sends more
MaxQueue == 2

\* bytes a read() asks for at most
MaxRead == 2

\* read() calls of the user
MaxReads == 2

\* the history of read(): the items of self._read_buffer (NoneInt is the
\* None the reader puts at the end of the connection), the size and the data
\* of the read() in progress, whether its timeout has elapsed, how the last
\* read() ended, and the frames the reader has not yet put on the socket
ReadHistory ==
    [phase |-> "read", queue |-> <<>>, size |-> 0, data |-> <<>>, elapsed |-> FALSE,
     result |-> "none", reads |-> 0, pending |-> <<>>]

\* self._thread is a greenlet that has not ended
thread_alive == reader \in {"running", "sendall"}

RECURSIVE read_loop(_, _, _, _)
\* the while loop of read() from its condition on, until it returns, raises
\* or blocks in self._read_buffer.get()
read_loop(data, queue, size, alive) ==
    IF Len(data) >= size THEN [data |-> data, queue |-> queue, outcome |-> "return"]
    ELSE IF ~ alive THEN [data |-> data, queue |-> queue, outcome |-> "raise"]
    ELSE IF queue = <<>> THEN [data |-> data, queue |-> queue, outcome |-> "block"]
    ELSE IF Head(queue) = NoneInt THEN [data |-> data, queue |-> Tail(queue), outcome |-> "return"]
    ELSE read_loop(Append(data, Head(queue)), Tail(queue), size, alive)

\* the while loop of read() from the return of the get() it was blocked in
read_woken(data, queue, size, alive) ==
    IF Head(queue) = NoneInt THEN [data |-> data, queue |-> Tail(queue), outcome |-> "return"]
    ELSE read_loop(Append(data, Head(queue)), Tail(queue), size, alive)

\* Serial.read(size) on the open port, until it returns, raises or blocks
Serial_read(size) ==
    /\ user = "opened"
    /\ client.is_open
    /\ rt.phase = "read"
    /\ rt.reads < MaxReads
    /\ \E r \in { read_loop(<<>>, rt.queue, size, thread_alive) } :
           /\ rt' = [rt EXCEPT !.queue = r.queue, !.data = r.data, !.result = r.outcome,
                               !.size = size, !.elapsed = FALSE, !.reads = @ + 1]
           /\ user' = IF r.outcome = "block" THEN "read" ELSE "opened"
           /\ log' = IF r.outcome = "raise" THEN << "SerialException" >> ELSE <<>>
    /\ recvd' = <<>>
    /\ sent' = <<>>
    /\ tty' = <<>>
    /\ calls' = <<>>
    /\ step' = "read"
    /\ UNCHANGED <<manager, serial, task, peer, c2s, client, reader, s2c>>

\* the reader has put an item: the get() read() is blocked in returns it and
\* read() goes on until it returns, raises or blocks again
Serial_read_resume ==
    /\ user = "read"
    /\ rt.phase = "read"
    /\ rt.queue # <<>>
    /\ \E r \in { read_woken(rt.data, rt.queue, rt.size, thread_alive) } :
           /\ rt' = [rt EXCEPT !.queue = r.queue, !.data = r.data, !.result = r.outcome]
           /\ user' = IF r.outcome = "block" THEN "read" ELSE "opened"
           /\ log' = IF r.outcome = "raise" THEN << "SerialException" >> ELSE <<>>
    /\ recvd' = <<>>
    /\ sent' = <<>>
    /\ tty' = <<>>
    /\ calls' = <<>>
    /\ step' = "read_resume"
    /\ UNCHANGED <<manager, serial, task, peer, c2s, client, reader, s2c>>

\* the timeout of the port runs out while read() is blocked: read() made a
\* gevent.Timeout of it but never started it, so nothing happens to read()
Serial_read_timeout ==
    /\ user = "read"
    /\ rt.phase = "read"
    /\ ~ rt.elapsed
    /\ rt' = [rt EXCEPT !.elapsed = TRUE]
    /\ recvd' = <<>>
    /\ sent' = <<>>
    /\ tty' = <<>>
    /\ log' = <<>>
    /\ calls' = <<>>
    /\ step' = "read_timeout"
    /\ UNCHANGED <<manager, serial, task, peer, c2s, client, reader, user, s2c>>

\* one round of _telnet_read_loop in which the answer to the last byte of
\* the chunk cannot be sent at once: the reader yields in the sendall of
\* telnet_send_option (the answer is the last thing its handler does)
_telnet_read_loop_blocked(k) ==
    /\ reader = "running"
    /\ client.is_open
    /\ rt.phase = "read"
    /\ k \in 1..Len(s2c)
    /\ \E st \in { filter(Run(client, serial), SubSeq(s2c, 1, k)) } :
           /\ WithinSub(st)
           /\ st.exc = "none"
           /\ Len(st.wr) = 1
           /\ Fields(client, st) = client
           /\ filter(Run(client, serial), SubSeq(s2c, 1, k - 1)).wr = <<>>
           /\ recvd' = SubSeq(s2c, 1, k)
           /\ s2c' = SubSeq(s2c, k + 1, Len(s2c))
           /\ rt' = [rt EXCEPT !.queue = @ \o st.out, !.pending = st.wr]
           /\ log' = st.log
           /\ calls' = st.calls
    /\ reader' = "sendall"
    /\ sent' = <<>>
    /\ tty' = <<>>
    /\ step' = "_telnet_read_loop_blocked"
    /\ UNCHANGED <<manager, serial, task, peer, c2s, client, user>>

\* the socket is writable again: the sendall of the reader returns
_telnet_read_loop_sent ==
    /\ reader = "sendall"
    /\ client.is_open
    /\ rt.phase = "read"
    /\ reader' = "running"
    /\ sent' = rt.pending
    /\ rt' = [rt EXCEPT !.pending = <<>>]
    /\ recvd' = <<>>
    /\ tty' = <<>>
    /\ log' = <<>>
    /\ calls' = <<>>
    /\ step' = "_telnet_read_loop_sent"
    /\ UNCHANGED <<manager, serial, task, peer, c2s, client, user, s2c>>

\* the peer has closed the connection: recv returns b'', the reader puts
\* None and leaves the loop
_telnet_read_loop_eof ==
    /\ reader = "running"
    /\ client.is_open
    /\ rt.phase = "read"
    /\ s2c = <<>>
    /\ reader' = "ended"
    /\ rt' = [rt EXCEPT !.queue = Append(@, NoneInt)]
    /\ recvd' = <<>>
    /\ sent' = <<>>
    /\ tty' = <<>>
    /\ log' = <<>>
    /\ calls' = <<>>
    /\ step' = "_telnet_read_loop_eof"
    /\ UNCHANGED <<manager, serial, task, peer, c2s, client, user, s2c>>

\* Serial.close() up to self._thread.join(7): is_open is cleared, the socket
\* is shut down in both directions and closed
close ==
    /\ user = "opened"
    /\ rt.phase = "read"
    /\ client' = [client EXCEPT !.is_open = FALSE]
    /\ user' = "join"
    /\ recvd' = <<>>
    /\ sent' = <<>>
    /\ tty' = <<>>
    /\ log' = <<>>
    /\ calls' = <<>>
    /\ step' = "close"
    /\ UNCHANGED <<manager, serial, task, peer, c2s, rt, reader, s2c>>

\* the socket was closed under the reader: the recv it waits in raises
\* socket.error, which the loop answers with None in the read buffer and a
\* break; the sendall it waits in raises socket.error too, which nothing in
\* the loop catches: the greenlet ends in the finally clause
_telnet_read_loop_closed ==
    /\ reader \in {"running", "sendall"}
    /\ ~ client.is_open
    /\ rt.phase = "read"
    /\ reader' = IF reader = "running" THEN "ended" ELSE "dead"
    /\ rt' = IF reader = "running" THEN [rt EXCEPT !.queue = Append(@, NoneInt)]
             ELSE [rt EXCEPT !.pending = <<>>]
    /\ log' = IF reader = "running" THEN << "debug: socket error in reader thread" >> ELSE <<>>
    /\ recvd' = <<>>
    /\ sent' = <<>>
    /\ tty' = <<>>
    /\ calls' = <<>>
    /\ step' = "_telnet_read_loop_closed"
    /\ UNCHANGED <<manager, serial, task, peer, c2s, client, user, s2c>>

\* self._thread.join(7) returns: the reader has ended; close() returns
close_return ==
    /\ user = "join"
    /\ rt.phase = "read"
    /\ ~ thread_alive
    /\ user' = "closed"
    /\ recvd' = <<>>
    /\ sent' = <<>>
    /\ tty' = <<>>
    /\ log' = <<>>
    /\ calls' = <<>>
    /\ step' = "close_return"
    /\ UNCHANGED <<manager, serial, task, peer, c2s, rt, client, reader, s2c>>

\* what the remote server sends to the open port: data, and a request for an
\* option the client does not know
ReadFrames == { <<65>>, <<66>>, <<IAC, DO, 24>> }

\* an open port
InitRead ==
    /\ peer = ReadFrames
    /\ rt = ReadHistory
    /\ manager = NoClient
    /\ serial = SerialDevice(FALSE, TRUE)
    /\ task = "absent"
    /\ client = Opened(9600, SerialDevice(FALSE, TRUE))
    /\ reader = "running"
    /\ user = "opened"
    /\ c2s = <<>>
    /\ s2c = <<>>
    /\ recvd = <<>>
    /\ sent = <<>>
    /\ tty = <<>>
    /\ log = <<>>
    /\ calls = <<>>
    /\ step = "open"

\* the steps of the reader greenlet
ReaderNext ==
    \/ \E k \in { Len(s2c) } : _telnet_read_loop(k)
    \/ \E k \in { Len(s2c) } : _telnet_read_loop_blocked(k)
    \/ _telnet_read_loop_sent
    \/ _telnet_read_loop_eof
    \/ _telnet_read_loop_closed

NextRead ==
    \/ \E frame \in peer : Len(rt.queue) < MaxQueue /\ peer_send_client(frame)
    \/ ReaderNext
    \/ \E size \in 1..MaxRead : Serial_read(size)
    \/ Serial_read_resume
    \/ Serial_read_timeout
    \/ close
    \/ close_return

SpecRead == InitRead /\ [][NextRead]_vars

\* the reader receives what is in flight, the read() that can go on does, and
\* time passes
SpecReadFair ==
    /\ SpecRead
    /\ WF_vars(\E k \in { Len(s2c) } : _telnet_read_loop(k))
    /\ WF_vars(Serial_read_resume)
    /\ WF_vars(Serial_read_timeout)

\* C23: a read(n) with a finite timeout always returns: a read() that is
\* still waiting when its timeout has elapsed returns, and every read() ends
\* by returning at most n bytes, n of them when the read buffer holds them
C23_ReadReturns ==
    /\ [](user = "read" /\ rt.elapsed => <>(user # "read"))
    /\ [][step' \in {"read", "read_resume"} /\ user' = "opened" =>
             /\ rt'.result = "return"
             /\ Len(rt'.data) <= rt'.size]_vars

\* ---------------------------------------------------------------------
\* util.Timeout
\* ---------------------------------------------------------------------

\* the longest duration of a Timeout, in clock ticks
MaxDuration == 3

\* the last reading of the clock
MaxTime == 5

\* the last reading of the clock, in ticks of 0.05 s, while the modem state
\* is polled
MaxPollTime == 10

\* the history of a Timeout: the clock, what the last time_left() and
\* the one before returned, and what the last expired() returned
TimeoutHistory(t) ==
    [phase |-> "timeout", t |-> t, now |-> 0, calls |-> 0, left |-> NoneInt, before |-> NoneInt,
     expired |-> FALSE]

\* time.monotonic() goes on
tick ==
    /\ rt.phase \in {"timeout", "poll"}
    /\ rt.now < (IF rt.phase = "poll" THEN MaxPollTime ELSE MaxTime)
    /\ rt.phase = "poll" /\ user = "poll_sleep" => rt.now < rt.wake_at
    /\ rt' = [rt EXCEPT !.now = @ + 1]
    /\ recvd' = <<>>
    /\ sent' = <<>>
    /\ tty' = <<>>
    /\ log' = <<>>
    /\ calls' = <<>>
    /\ step' = "tick"
    /\ UNCHANGED <<manager, serial, task, peer, c2s, client, reader, user, s2c>>

\* a call of time_left(), followed by a call of expired() at the same
\* reading of the clock
Timeout_time_left ==
    /\ rt.phase = "timeout"
    /\ \E r \in { time_left(rt.t, rt.now) } :
           rt' = [rt EXCEPT !.t = r.t, !.before = rt.left, !.left = r.left,
                            !.calls = IF @ < 2 THEN @ + 1 ELSE @,
                            !.expired = expired(r.t, rt.now)]
    /\ step' = "time_left"
    /\ UNCHANGED <<manager, serial, task, peer, c2s, recvd, sent, tty, log, calls, client, reader, user, s2c>>

\* a Timeout of any duration, or of none, has just been constructed
InitTimeout ==
    /\ \E t \in { Timeout(d, 0) : d \in 0..MaxDuration } \cup { Timeout_None } : rt = TimeoutHistory(t)
    /\ peer = {}
    /\ manager = NoClient
    /\ serial = SerialDevice(FALSE, TRUE)
    /\ task = "absent"
    /\ client = Serial(9600)
    /\ reader = "running"
    /\ user = "opened"
    /\ c2s = <<>>
    /\ s2c = <<>>
    /\ recvd = <<>>
    /\ sent = <<>>
    /\ tty = <<>>
    /\ log = <<>>
    /\ calls = <<>>
    /\ step = "Timeout"

NextTimeout ==
    \/ tick
    \/ Timeout_time_left

SpecTimeout == InitTimeout /\ [][NextTimeout]_vars

\* C30: with a clock that never goes backwards, time_left() of a Timeout of
\* finite duration d is within 0..d, is never more than what the call before
\* returned, and is 0 exactly when expired() is true; a Timeout of no
\* duration never expires, and one of duration 0 is always expired
C30_Timeout ==
    step = "time_left" =>
        /\ ~ rt.t.is_infinite =>
               /\ rt.left >= 0
               /\ rt.left <= rt.t.duration
               /\ rt.calls = 2 => rt.left <= rt.before
               /\ rt.expired <=> rt.left = 0
        /\ rt.t.is_infinite => ~ rt.expired
        /\ rt.t.duration = 0 => rt.expired

\* a Timeout of duration 2 had a tick left and now has none: it is expired
C30_Witness ==
    /\ step = "time_left"
    /\ rt.t.duration = 2
    /\ rt.before = 1
    /\ rt.left = 0
    /\ rt.expired

\* ---------------------------------------------------------------------
\* The modem state of the open port
\* ---------------------------------------------------------------------

\* get_modem_state() calls of the user
MaxGets == 2

\* the network timeout of a port opened with the URL option timeout=0.2, in
\* clock ticks of 0.05 s
ShortTimeout == 4

\* the history of get_modem_state(): the clock, the byte and the time of the
\* last SERVER_NOTIFY_MODEMSTATE received (last_at is only read with a byte),
\* the time of the call in progress, whether it polled, the Timeout of its
\* poll, the end of its sleep, and how it ended
PollHistory ==
    [phase |-> "poll", now |-> 0, last_byte |-> NoneInt, last_at |-> 0, gets |-> 0, called_at |-> 0,
     polled |-> FALSE, timeout |-> Timeout_None, wake_at |-> 0, result |-> "none", value |-> NoneInt]

\* faulty variant of poll_due: every call polls
poll_due_always(c, now) == TRUE

\* get_modem_state polls: self._poll_modem_state and
\* self._modemstate_timeout.expired()
poll_due(c, now) == c._poll_modem_state /\ expired(c._modemstate_timeout, now)

\* the end of get_modem_state: the cached byte, or SerialException
\* ("remote sends no NOTIFY_MODEMSTATE") when self._modemstate is None
modem_state_result(c) ==
    IF c._modemstate # NoneInt THEN [result |-> "return", value |-> c._modemstate]
    ELSE [result |-> "raise", value |-> NoneInt]

\* get_modem_state() up to its first gevent.sleep(0.05), or to its end when
\* it does not poll
get_modem_state ==
    /\ user = "opened"
    /\ rt.phase = "poll"
    /\ rt.gets < MaxGets
    /\ IF poll_due(client, rt.now)
       THEN \E st \in { rfc2217_send_subnegotiation(Run(client, serial), NOTIFY_MODEMSTATE, <<>>) } :
              \E timeout \in { Timeout(client._network_timeout, rt.now) } :
                /\ sent' = st.wr
                /\ IF ~ expired(timeout, rt.now)
                   THEN /\ user' = "poll_sleep"
                        /\ log' = << "debug: polling modem state" >>
                        /\ rt' = [rt EXCEPT !.gets = @ + 1, !.called_at = rt.now, !.polled = TRUE,
                                            !.timeout = timeout, !.wake_at = rt.now + 1,
                                            !.result = "none", !.value = NoneInt]
                   ELSE /\ user' = "opened"
                        /\ log' = << "debug: polling modem state", "warning: poll for modem state failed" >>
                        /\ rt' = [rt EXCEPT !.gets = @ + 1, !.called_at = rt.now, !.polled = TRUE,
                                            !.timeout = timeout,
                                            !.result = modem_state_result(client).result,
                                            !.value = modem_state_result(client).value]
       ELSE /\ sent' = <<>>
            /\ user' = "opened"
            /\ log' = <<>>
            /\ rt' = [rt EXCEPT !.gets = @ + 1, !.called_at = rt.now, !.polled = FALSE,
                                !.result = modem_state_result(client).result,
                                !.value = modem_state_result(client).value]
    /\ recvd' = <<>>
    /\ tty' = <<>>
    /\ calls' = <<>>
    /\ step' = "get_modem_state"
    /\ UNCHANGED <<manager, serial, task, peer, c2s, client, reader, s2c>>

\* get_modem_state() from the end of a gevent.sleep(0.05) to the next one,
\* or to its end: the cache was refreshed, or the poll has timed out
get_modem_state_wake ==
    /\ user = "poll_sleep"
    /\ rt.phase = "poll"
    /\ rt.now = rt.wake_at
    /\ IF expired(client._modemstate_timeout, rt.now) /\ ~ expired(rt.timeout, rt.now)
       THEN /\ user' = "poll_sleep"
            /\ log' = <<>>
            /\ rt' = [rt EXCEPT !.wake_at = rt.now + 1]
       ELSE /\ user' = "opened"
            /\ log' = IF expired(client._modemstate_timeout, rt.now)
                      THEN << "warning: poll for modem state failed" >> ELSE <<>>
            /\ rt' = [rt EXCEPT !.result = modem_state_result(client).result,
                                !.value = modem_state_result(client).value]
    /\ recvd' = <<>>
    /\ sent' = <<>>
    /\ tty' = <<>>
    /\ calls' = <<>>
    /\ step' = "get_modem_state_wake"
    /\ UNCHANGED <<manager, serial, task, peer, c2s, client, reader, s2c>>

\* what the remote server sends to the open port: modem state notifications,
\* one of them without its byte
PollFrames ==
    { Sub(<<COM_PORT_OPTION, SERVER_NOTIFY_MODEMSTATE, 17>>),
      Sub(<<COM_PORT_OPTION, SERVER_NOTIFY_MODEMSTATE, 32>>),
      Sub(<<COM_PORT_OPTION, SERVER_NOTIFY_MODEMSTATE>>) }

\* an open port, with or without the poll_modem option of the URL
InitPoll ==
    /\ peer = PollFrames
    /\ rt = PollHistory
    /\ manager = NoClient
    /\ serial = SerialDevice(FALSE, TRUE)
    /\ task = "absent"
    /\ \E poll \in BOOLEAN :
           client = [Opened(9600, SerialDevice(FALSE, TRUE)) EXCEPT
                        !._poll_modem_state = poll, !._network_timeout = ShortTimeout]
    /\ reader = "running"
    /\ user = "opened"
    /\ c2s = <<>>
    /\ s2c = <<>>
    /\ recvd = <<>>
    /\ sent = <<>>
    /\ tty = <<>>
    /\ log = <<>>
    /\ calls = <<>>
    /\ step = "open"

NextPoll ==
    \/ \E frame \in peer : peer_send_client(frame)
    \/ \E k \in { Len(s2c) } : _telnet_read_loop(k)
    \/ get_modem_state
    \/ get_modem_state_wake
    \/ tick

SpecPoll == InitPoll /\ [][NextPoll]_vars

\* the request for the modem state
PollRequest == Sub(<<COM_PORT_OPTION, NOTIFY_MODEMSTATE>>)

\* C24: get_modem_state sends NOTIFY_MODEMSTATE only when polling is enabled
\* and no modem state was received in the last 300 ms; the call ends at most
\* the network timeout after it began; it returns the byte of the last
\* SERVER_NOTIFY_MODEMSTATE received, also when its poll timed out, and it
\* fails exactly when no such notification was ever received
C24_GetModemState ==
    /\ [][(\E i \in 1..Len(sent') : sent'[i] = PollRequest) =>
             /\ step' = "get_modem_state"
             /\ sent' = << PollRequest >>
             /\ client._poll_modem_state
             /\ rt.last_byte = NoneInt \/ rt.now - rt.last_at >= ModemFresh]_vars
    /\ [][step' \in {"get_modem_state", "get_modem_state_wake"} /\ user' = "opened" =>
             /\ rt'.now - rt'.called_at <= client._network_timeout
             /\ rt'.result = "raise" <=> rt.last_byte = NoneInt
             /\ rt'.result = "return" <=> rt'.value = rt.last_byte /\ rt.last_byte # NoneInt]_vars

\* a poll timed out and the call returned the byte received before it
C24_Witness ==
    /\ step = "get_modem_state_wake"
    /\ rt.polled
    /\ rt.now - rt.called_at = client._network_timeout
    /\ rt.result = "return"
    /\ rt.value = 17

\* no notification was ever received: the call failed
C24_WitnessNone ==
    /\ step = "get_modem_state"
    /\ rt.result = "raise"
    /\ rt.last_byte = NoneInt

\* C25: close() clears is_open and closes the socket; the reader that was
\* running then ends having put the EOF sentinel at the end of the read
\* buffer, and close() returns with the reader ended; none of this takes a
\* byte from the peer
C25_Close ==
    /\ [][step' = "close" => ~ client'.is_open /\ user' = "join"]_vars
    /\ [][~ client.is_open /\ thread_alive /\ ~ thread_alive' =>
             /\ reader' = "ended"
             /\ rt'.queue = Append(rt.queue, NoneInt)
             /\ s2c' = s2c]_vars
    /\ [](user = "closed" => ~ thread_alive)

\* ---------------------------------------------------------------------
\* TelnetOption on its own
\* ---------------------------------------------------------------------

\* the states a TelnetOption is constructed in: REQUESTED and INACTIVE as
\* the option tables of the program do, and REALLY_INACTIVE, which the class
\* handles and no table uses
InitialStates == {REQUESTED, INACTIVE, REALLY_INACTIVE}

\* the commands an option is told of: the four negotiation commands and one
\* that is none of them
OptionCommands == {DO, DONT, WILL, WONT, NOP}

\* the history of the calls on the options: the option and the command of
\* the last call
OptionHistory == [phase |-> "option", i |-> 0, command |-> NoneInt]

\* process_incoming(command) on option i
TelnetOption_process_incoming(i, command) ==
    /\ rt.phase = "option"
    /\ \E st \in { process_incoming(Run(client, serial), i, command) } :
           /\ client' = Fields(client, st)
           /\ sent' = st.wr
           /\ log' = st.log
           /\ calls' = st.calls
    /\ rt' = [rt EXCEPT !.i = i, !.command = command]
    /\ step' = "process_incoming"
    /\ UNCHANGED <<manager, serial, task, peer, c2s, recvd, tty, reader, user, s2c>>

\* activate(send) on option i
TelnetOption_activate(i, send) ==
    /\ rt.phase = "option"
    /\ \E st \in { activate(Run(client, serial), i, send) } :
           /\ client' = Fields(client, st)
           /\ sent' = st.wr
           /\ log' = st.log
           /\ calls' = st.calls
    /\ rt' = [rt EXCEPT !.i = i, !.command = NoneInt]
    /\ step' = "activate"
    /\ UNCHANGED <<manager, serial, task, peer, c2s, recvd, tty, reader, user, s2c>>

\* deactivate(send) on option i
TelnetOption_deactivate(i, send) ==
    /\ rt.phase = "option"
    /\ \E st \in { deactivate(Run(client, serial), i, send) } :
           /\ client' = Fields(client, st)
           /\ sent' = st.wr
           /\ log' = st.log
           /\ calls' = st.calls
    /\ rt' = [rt EXCEPT !.i = i, !.command = NoneInt]
    /\ step' = "deactivate"
    /\ UNCHANGED <<manager, serial, task, peer, c2s, recvd, tty, reader, user, s2c>>

\* two options have just been constructed, one that is ours to offer and one
\* that is the peer's, each in any initial state and with two callbacks of
\* the caller, whose calls are recorded
InitOption ==
    /\ rt = OptionHistory
    /\ \E s1 \in InitialStates : \E s2 \in InitialStates :
           client = [Serial(9600) EXCEPT !._telnet_options =
                        << TelnetOption("we-SGA", SGA, WILL, WONT, DO, DONT, s1, "activation", "deactivation"),
                           TelnetOption("ECHO", ECHO, DO, DONT, WILL, WONT, s2, "activation", "deactivation") >>]
    /\ peer = {}
    /\ manager = NoClient
    /\ serial = SerialDevice(FALSE, TRUE)
    /\ task = "absent"
    /\ reader = "running"
    /\ user = "all_mandatory"
    /\ c2s = <<>>
    /\ s2c = <<>>
    /\ recvd = <<>>
    /\ sent = <<>>
    /\ tty = <<>>
    /\ log = <<>>
    /\ calls = <<>>
    /\ step = "TelnetOption"

NextOption ==
    \/ \E i \in 1..Len(client._telnet_options) : \E command \in OptionCommands :
           TelnetOption_process_incoming(i, command)
    \/ \E i \in 1..Len(client._telnet_options) : \E send \in BOOLEAN : TelnetOption_activate(i, send)
    \/ \E i \in 1..Len(client._telnet_options) : \E send \in BOOLEAN : TelnetOption_deactivate(i, send)

SpecOption == InitOption /\ [][NextOption]_vars

\* C26: after its construction and after every call of process_incoming,
\* activate and deactivate, an option is active exactly when its state is
\* ACTIVE, and its event is set exactly when it is active
C26_OptionClosure ==
    \A i \in 1..Len(client._telnet_options) :
        /\ client._telnet_options[i].active <=> client._telnet_options[i].state = ACTIVE
        /\ client._telnet_options[i].active_event <=> client._telnet_options[i].active

\* an option that was active has been deactivated by the peer, the other one
\* is active
C26_Witness ==
    /\ step = "process_incoming"
    /\ sent = << <<IAC, WONT, SGA>> >>
    /\ client._telnet_options[1].state = INACTIVE
    /\ ~ client._telnet_options[1].active_event
    /\ client._telnet_options[2].state = ACTIVE
    /\ client._telnet_options[2].active_event

\* the row of the transition table for a state and a command: the state
\* after the call and the command of the answer (NoneInt for no answer)
OptionRow(o, command) ==
    IF command = o.ack_yes
    THEN CASE o.state = REQUESTED -> [state |-> ACTIVE, answer |-> NoneInt]
           [] o.state = ACTIVE -> [state |-> ACTIVE, answer |-> NoneInt]
           [] o.state = INACTIVE -> [state |-> ACTIVE, answer |-> o.send_yes]
           [] o.state = REALLY_INACTIVE -> [state |-> REALLY_INACTIVE, answer |-> o.send_no]
    ELSE IF command = o.ack_no
    THEN CASE o.state = REQUESTED -> [state |-> INACTIVE, answer |-> NoneInt]
           [] o.state = ACTIVE -> [state |-> INACTIVE, answer |-> o.send_no]
           [] o.state = INACTIVE -> [state |-> INACTIVE, answer |-> NoneInt]
           [] o.state = REALLY_INACTIVE -> [state |-> REALLY_INACTIVE, answer |-> NoneInt]
    ELSE [state |-> o.state, answer |-> NoneInt]

\* C27: process_incoming follows the transition table: on ack_yes REQUESTED
\* becomes ACTIVE silently, ACTIVE stays, INACTIVE becomes ACTIVE with
\* send_yes, REALLY_INACTIVE stays with send_no; on ack_no REQUESTED becomes
\* INACTIVE silently, ACTIVE becomes INACTIVE with send_no, INACTIVE and
\* REALLY_INACTIVE stay silently; any other command changes and sends nothing
C27_OptionTable ==
    [][step' = "process_incoming" =>
          LET o == client._telnet_options[rt'.i]
              row == OptionRow(o, rt'.command)
          IN  /\ client'._telnet_options[rt'.i].state = row.state
              /\ sent' = IF row.answer = NoneInt THEN <<>> ELSE << <<IAC, row.answer, o.option>> >>
              /\ row.state = o.state => client'._telnet_options = client._telnet_options
              /\ \A j \in 1..Len(client._telnet_options) :
                     j # rt'.i => client'._telnet_options[j] = client._telnet_options[j]]_vars

\* the peer has offered an option that was inactive: it is active and the
\* agreement was sent
C27_Witness ==
    /\ step = "process_incoming"
    /\ rt.command = WILL
    /\ sent = << <<IAC, DO, ECHO>> >>
    /\ client._telnet_options[2].state = ACTIVE

\* ---------------------------------------------------------------------
\* TelnetSubnegotiation on its own
\* ---------------------------------------------------------------------

\* the longest value requested
MaxValue == 2

\* the longest answer checked
MaxAnswer == 3

\* the byte strings of at most n bytes over two byte values
Values(n) == UNION { [1..k -> {1, 2}] : k \in 0..n }

\* the sub-option called
SubNames == {"control"}

\* the history of the calls on the sub-options: the name and the argument of
\* the last call
SubHistory == [phase |-> "sub", name |-> "none", arg |-> <<>>]

\* set(value) on the sub-option name
TelnetSubnegotiation_set(name, value) ==
    /\ rt.phase = "sub"
    /\ \E st \in { set(Run(client, serial), name, value) } :
           /\ client' = Fields(client, st)
           /\ sent' = st.wr
           /\ log' = st.log
    /\ rt' = [rt EXCEPT !.name = name, !.arg = value]
    /\ step' = "set"
    /\ UNCHANGED <<manager, serial, task, peer, c2s, recvd, tty, calls, reader, user, s2c>>

\* check_answer(suboption) on the sub-option name
TelnetSubnegotiation_check_answer(name, suboption) ==
    /\ rt.phase = "sub"
    /\ \E st \in { check_answer(Run(client, serial), name, suboption) } :
           /\ client' = Fields(client, st)
           /\ sent' = st.wr
           /\ log' = IF st.exc = "none" THEN st.log ELSE << st.exc >>
    /\ rt' = [rt EXCEPT !.name = name, !.arg = suboption]
    /\ step' = "check_answer"
    /\ UNCHANGED <<manager, serial, task, peer, c2s, recvd, tty, calls, reader, user, s2c>>

\* the sub-options have just been constructed
InitSub ==
    /\ rt = SubHistory
    /\ client = Serial(9600)
    /\ peer = {}
    /\ manager = NoClient
    /\ serial = SerialDevice(FALSE, TRUE)
    /\ task = "absent"
    /\ reader = "running"
    /\ user = "all_mandatory"
    /\ c2s = <<>>
    /\ s2c = <<>>
    /\ recvd = <<>>
    /\ sent = <<>>
    /\ tty = <<>>
    /\ log = <<>>
    /\ calls = <<>>
    /\ step = "TelnetSubnegotiation"

NextSub ==
    \/ \E name \in SubNames : \E value \in Values(MaxValue) : TelnetSubnegotiation_set(name, value)
    \/ \E name \in SubNames : \E suboption \in Values(MaxAnswer) :
           TelnetSubnegotiation_check_answer(name, suboption)

SpecSub == InitSub /\ [][NextSub]_vars

\* the first n bytes of r, all of r when it is shorter
First(r, n) == SubSeq(r, 1, IF Len(r) < n THEN Len(r) ELSE n)

\* C28: after set(v) the sub-option is REQUESTED with value v and its event
\* cleared; after a check_answer(r) that follows a set(v) it is ACTIVE when
\* the first |v| bytes of r are v and REALLY_INACTIVE when they are not; and
\* the event is set exactly when the state is ACTIVE, at all times
C28_Subnegotiation ==
    /\ [](\A name \in DOMAIN client._rfc2217_options :
              client._rfc2217_options[name].active_event <=> client._rfc2217_options[name].state = ACTIVE)
    /\ [][step' = "set" =>
             /\ client'._rfc2217_options[rt'.name].state = REQUESTED
             /\ client'._rfc2217_options[rt'.name].value = rt'.arg
             /\ ~ client'._rfc2217_options[rt'.name].active_event]_vars
    /\ [][step' = "check_answer" /\ client._rfc2217_options[rt'.name].value # NoneBytes =>
             /\ client'._rfc2217_options[rt'.name].value = client._rfc2217_options[rt'.name].value
             /\ client'._rfc2217_options[rt'.name].state =
                    IF First(rt'.arg, Len(client._rfc2217_options[rt'.name].value))
                           = client._rfc2217_options[rt'.name].value
                    THEN ACTIVE ELSE REALLY_INACTIVE]_vars

\* an answer longer than the value requested, and beginning with it, has
\* made the sub-option active
C28_Witness ==
    /\ step = "check_answer"
    /\ client._rfc2217_options["control"].value = <<1, 2>>
    /\ rt.arg = <<1, 2, 1>>
    /\ client._rfc2217_options["control"].state = ACTIVE
    /\ client._rfc2217_options["control"].active_event

\* ---------------------------------------------------------------------
\* One subnegotiation from a PortManager to the filter of its peer
\* ---------------------------------------------------------------------

\* the sub-options sent: one the handler of the peer answers and one it
\* does not know
BlockOptions == {NOTIFY_LINESTATE, SERVER_NOTIFY_MODEMSTATE}

\* rfc2217_send_subnegotiation(opt, b) is called and its frame is on the wire
\* towards the filter
send_subnegotiation ==
    /\ rt.phase = "block"
    /\ task = "running"
    /\ \E st \in { rfc2217_send_subnegotiation(Run(manager, serial), rt.opt, rt.b) } :
           /\ c2s' = c2s \o join(st.wr)
           /\ sent' = st.wr
    /\ rt' = [rt EXCEPT !.phase = "wire"]
    /\ recvd' = <<>>
    /\ tty' = <<>>
    /\ log' = <<>>
    /\ calls' = <<>>
    /\ step' = "send_subnegotiation"
    /\ UNCHANGED <<manager, serial, task, peer, client, reader, user, s2c>>

\* a fresh server and a subnegotiation, of any value, to send to it
InitBlock ==
    /\ \E b \in Payloads(MaxLen) : \E opt \in BlockOptions :
          /\ rt = [phase |-> "block", b |-> b, opt |-> opt, out |-> <<>>, calls |-> <<>>]
          /\ peer = { rfc2217_send_subnegotiation(Run(PortManager, SerialDevice(FALSE, TRUE)), opt, b).wr[1] }
    /\ Accepted(SerialDevice(FALSE, TRUE))

NextBlock ==
    \/ send_subnegotiation
    \/ \E k \in 1..Len(c2s) : tcp_to_serial(k)

\* a fresh server that receives one subnegotiation, in any chunks
SpecBlock == InitBlock /\ [][NextBlock]_vars

RECURSIVE Doubled(_)
\* b with every 0xFF twice
Doubled(b) ==
    IF b = <<>> THEN <<>>
    ELSE (IF Head(b) = IAC THEN <<IAC, IAC>> ELSE << Head(b) >>) \o Doubled(Tail(b))

\* C29: rfc2217_send_subnegotiation(opt, v) writes the one frame
\* IAC SB COM_PORT_OPTION opt v' IAC SE, v' being v with every 0xFF doubled;
\* the filter that has received the frame, in any chunks, has called its
\* subnegotiation handler once, with COM_PORT_OPTION opt v, and has yielded
\* no byte, whatever v
C29_Step ==
    step' = "send_subnegotiation" =>
        sent' = << <<IAC, SB, COM_PORT_OPTION, rt.opt>> \o Doubled(rt.b) \o <<IAC, SE>> >>

C29_SubnegotiationFraming ==
    /\ [](rt.phase = "wire" => rt.out = <<>>)
    /\ [](rt.phase = "wire" /\ c2s = <<>> =>
              /\ rt.calls = << <<"subnegotiation", <<COM_PORT_OPTION, rt.opt>> \o rt.b>> >>
              /\ manager.mode = M_NORMAL
              /\ manager.suboption = NoneBytes)
    /\ [][C29_Step]_vars

\* a value with 0xFF and 0xF0 in it went through, in more than one chunk
C29_Witness ==
    /\ rt.phase = "wire"
    /\ c2s = <<>>
    /\ rt.b = <<IAC, SE, IAC>>
    /\ rt.calls = << <<"subnegotiation", <<COM_PORT_OPTION, rt.opt>> \o rt.b>> >>
    /\ Len(recvd) < 6 + Len(Doubled(rt.b))

\* ---------------------------------------------------------------------
\* The state the tasks of a bridge share
\* ---------------------------------------------------------------------

\* the states of the options of obj, in the order of the table
OptionStates(obj) == [i \in DOMAIN obj._telnet_options |-> obj._telnet_options[i].state]

\* C31: last_modemstate, _client_is_rfc2217 and the states of the options are
\* changed by the task that reads the socket only: a step of the modem poll
\* or of the serial-to-tcp pump leaves the three as they were
C31_SharedState ==
    [][step' \in {"poll_statusline", "serial_to_tcp"} =>
           /\ manager'.last_modemstate = manager.last_modemstate
           /\ manager'._client_is_rfc2217 = manager._client_is_rfc2217
           /\ OptionStates(manager') = OptionStates(manager)]_vars

\* the callbacks the transition table fires for a state and a command
RowCallbacks(o, command) ==
    IF command = o.ack_yes /\ o.state \in {REQUESTED, INACTIVE}
    THEN << <<"callback", o.activation_callback>> >>
    ELSE IF command = o.ack_no /\ o.state = ACTIVE
    THEN << <<"callback", o.deactivation_callback>> >>
    ELSE <<>>

\* C32: process_incoming calls the activation callback exactly on ack_yes in
\* REQUESTED and in INACTIVE, and the deactivation callback on ack_no in
\* ACTIVE; ack_no in REQUESTED moves the option to INACTIVE and calls nothing
C32_Callbacks ==
    [][step' = "process_incoming" =>
           calls' = RowCallbacks(client._telnet_options[rt'.i], rt'.command)]_vars

\* ---------------------------------------------------------------------
\* Data and port settings in one stream to the server
\* ---------------------------------------------------------------------

\* the requests of the peer: a new baud rate, a new data size
SetBaud == Sub(<<COM_PORT_OPTION, SET_BAUDRATE>> \o pack_I(115200))
SetSize == Sub(<<COM_PORT_OPTION, SET_DATASIZE, 7>>)

\* a client that sends data and requests, each by itself and in one send
OrderFrames ==
    { <<65>>, <<66>>, SetBaud, SetSize,
      <<65>> \o SetBaud, SetBaud \o <<66>>, <<65>> \o SetSize \o <<66>> }

InitOrder ==
    /\ peer = OrderFrames
    /\ Accepted(SerialDevice(FALSE, TRUE))
    /\ rt = NoRt

\* a server under a client that mixes data with requests for port settings;
\* recv returns any part of what is in flight
SpecOrder == InitOrder /\ [][Next]_vars

\* manager.serial.write(dst) of tcp_to_serial: the bytes of dst leave the
\* device with the settings dev has at the call
serial_write(dst, dev) ==
    [i \in 1..Len(dst) |-> [byte |-> dst[i], baudrate |-> dev.baudrate, bytesize |-> dev.bytesize]]

RECURSIVE InStreamOrder(_, _, _)
\* the bytes of a stream of data and whole requests as the device sends them
\* when every request takes effect at its place in the stream; a request
\* that is not whole yet holds back what follows it
InStreamOrder(bytes, baudrate, bytesize) ==
    IF bytes = <<>> THEN <<>>
    ELSE IF IsPrefix(SetBaud, bytes)
    THEN InStreamOrder(SubSeq(bytes, Len(SetBaud) + 1, Len(bytes)), 115200, bytesize)
    ELSE IF IsPrefix(SetSize, bytes)
    THEN InStreamOrder(SubSeq(bytes, Len(SetSize) + 1, Len(bytes)), baudrate, 7)
    ELSE IF Head(bytes) = IAC THEN <<>>
    ELSE << [byte |-> Head(bytes), baudrate |-> baudrate, bytesize |-> bytesize] >>
         \o InStreamOrder(Tail(bytes), baudrate, bytesize)

\* C33: the data bytes before a com port request in the stream are written
\* to the device before the request takes effect on it, and those after it
\* are written after, also when they come in one chunk: of a chunk that
\* starts outside every sequence, each data byte goes out with the settings
\* the requests before it in the chunk have made
C33_DataBeforeSettings ==
    [][(/\ step' = "tcp_to_serial"
        /\ task' = "running"
        /\ manager.mode = M_NORMAL
        /\ manager.suboption = NoneBytes)
       => serial_write(tty', serial') = InStreamOrder(recvd', serial.baudrate, serial.bytesize)]_vars

\* ---------------------------------------------------------------------
\* The end of the option negotiation
\* ---------------------------------------------------------------------

\* the negotiation frames each side has sent after its initial requests
QuietHistory == [phase |-> "quiet", client |-> 0, server |-> 0]

\* the commands of a peer for options that are registered once, twice and
\* not at all
QuietFrames == { <<IAC, c, o>> : c \in {DO, DONT, WILL, WONT}, o \in {ECHO, COM_PORT_OPTION, 24} }

\* a client and a server that have sent their initial requests to each
\* other, or one of the two with a peer that sends commands as it likes
InitQuiet ==
    /\ peer = QuietFrames
    /\ rt = QuietHistory
    /\ \/ Connected(SerialDevice(FALSE, TRUE), 9600)
       \/ Accepted(SerialDevice(FALSE, TRUE))
       \/ Dialled(9600)

NextQuiet ==
    \/ \E frame \in peer : peer_send(frame)
    \/ \E frame \in peer : peer_send_client(frame)
    \/ \E k \in 1..MaxRecv : tcp_to_serial(k)
    \/ \E k \in 1..MaxRecv : _telnet_read_loop(k)

\* each receive loop goes on whenever its socket has bytes
SpecQuiet ==
    /\ InitQuiet
    /\ [][NextQuiet]_vars
    /\ WF_vars(\E k \in 1..MaxRecv : tcp_to_serial(k))
    /\ WF_vars(\E k \in 1..MaxRecv : _telnet_read_loop(k))

\* the client and the server are connected to each other
Paired == task = "running" /\ reader = "running"

\* nothing is in flight in either direction
Quiet == c2s = <<>> /\ s2c = <<>>

\* the entries of obj for the option code, one for a code without entry
\* (which gets the one refusal)
Entries(obj, option) ==
    LET n == Cardinality({ i \in 1..Len(obj._telnet_options) : obj._telnet_options[i].option = option })
    IN  IF n = 0 THEN 1 ELSE n

RECURSIVE Answers(_, _)
\* the entries of obj for the options of the negotiation commands among the
\* calls c, summed up
Answers(obj, c) ==
    IF c = <<>> THEN 0
    ELSE (IF Head(c)[1] = "negotiate" THEN Entries(obj, Head(c)[3]) ELSE 0) + Answers(obj, Tail(c))

\* obj sent no more negotiation frames in the step than it has entries for
\* the options of the negotiation commands delivered to it in the step
C34_Step(obj) == Negotiations(sent') <= Answers(obj, calls')

\* C34: the negotiation between a client and a server does not loop: after
\* the initial requests each side sends no more negotiation frames than it
\* has options, and the exchange comes to rest with nothing in flight; and
\* whatever negotiation command either side receives, it sends at most one
\* frame for each of its entries for the option
C34_Quiescence ==
    /\ [](Paired => /\ rt.client <= Len(client._telnet_options)
                    /\ rt.server <= Len(manager._telnet_options))
    /\ (Paired => <>[]Quiet)
    /\ [][/\ Pumped => C34_Step(manager)
          /\ Read => C34_Step(client)]_vars

\* the two have negotiated the com port option, both have answered, and
\* nothing is in flight
C34_Witness ==
    /\ Paired
    /\ Quiet
    /\ rt.client > 0
    /\ rt.server > 0
    /\ Negotiated

RECURSIVE UpToNone(_)
\* the items of the queue before the first None
UpToNone(queue) ==
    IF queue = <<>> \/ Head(queue) = NoneInt THEN <<>>
    ELSE << Head(queue) >> \o UpToNone(Tail(queue))

\* C35: no byte is lost at the end of the stream: when read() reports the
\* end of the stream (it returns short at the None of the reader) it has
\* returned every byte queued before the None, and when read() reports a
\* connection failure no byte the reader has queued is left in the queue
C35_NoDataLoss ==
    [][/\ (step' = "read" /\ rt'.result = "return" /\ Len(rt'.data) < rt'.size)
              => rt'.data = UpToNone(rt.queue)
       /\ (step' = "read_resume" /\ rt'.result = "return" /\ Len(rt'.data) < rt'.size)
              => rt'.data = rt.data \o UpToNone(rt.queue)
       /\ (step' \in {"read", "read_resume"} /\ rt'.result = "raise")
              => UpToNone(rt'.queue) = <<>>]_vars

\* ---------------------------------------------------------------------
\* The flow control mode of the device
\* ---------------------------------------------------------------------

\* the mode of the last flow control request the server has acknowledged
FlowHistory == [phase |-> "flow", mode |-> NoneInt]

\* the query of the flow control mode and the three requests for a mode
FlowFrames ==
    { Sub(<<COM_PORT_OPTION, SET_CONTROL, v>>) :
         v \in {SET_CONTROL_REQ_FLOW_SETTING, SET_CONTROL_USE_NO_FLOW_CONTROL,
                SET_CONTROL_USE_SW_FLOW_CONTROL, SET_CONTROL_USE_HW_FLOW_CONTROL} }

InitFlow ==
    /\ peer = FlowFrames
    /\ Accepted(SerialDevice(FALSE, TRUE))
    /\ rt = FlowHistory

NextFlow ==
    \/ \E frame \in peer : peer_send(frame)
    \/ \E k \in 1..(MaxInFlight + 7) : tcp_to_serial(k)

\* one connection of a server under a peer that sets and queries the flow
\* control mode
SpecFlow == InitFlow /\ [][NextFlow]_vars

\* C36: the flow control mode has one value: xonxoff and rtscts are never
\* both set on the device, and the query of the mode is answered with the
\* mode of the last request for a mode that was acknowledged
C36_FlowControl ==
    /\ [](~ (serial.xonxoff /\ serial.rtscts))
    /\ [][(/\ Pumped
           /\ rt.mode # NoneInt
           /\ Delivered(calls', <<COM_PORT_OPTION, SET_CONTROL, SET_CONTROL_REQ_FLOW_SETTING>>))
          => sent' = << Reply(SERVER_SET_CONTROL, <<rt.mode>>) >>]_vars

\* the client has withdrawn the com port option after it had accepted it
Withdrawn(m) == m._client_is_rfc2217 /\ ~ Rfc2217Active(m)

\* C37: _client_is_rfc2217 only ever goes from false to true during a
\* connection, also when the client deactivates we-RFC2217 and they-RFC2217
\* with DONT and WONT; the modem poll goes on notifying such a client of the
\* changes the mask lets through
C37_Step ==
    /\ manager._client_is_rfc2217 => manager'._client_is_rfc2217
    /\ (Pumped /\ Rfc2217Active(manager) /\ ~ Rfc2217Active(manager')) => manager'._client_is_rfc2217
    /\ (Polled /\ Withdrawn(manager) /\ ModemChanged /\ And8(ModemByte, manager.modemstate_mask) # 0)
          => Cardinality(Notifications) = 1

C37_ClientOkMonotone == [][C37_Step]_vars

\* the poll has notified a client that had withdrawn the com port option of
\* a change of CTS
C37_Witness ==
    /\ step = "poll_statusline"
    /\ Withdrawn(manager)
    /\ OptionState(manager, "we-RFC2217") = INACTIVE
    /\ OptionState(manager, "they-RFC2217") = INACTIVE
    /\ serial.cts
    /\ sent = << Reply(SERVER_NOTIFY_MODEMSTATE, <<17>>) >>

\* ---------------------------------------------------------------------
\* TelnetOption with an answer whose send has to wait
\* ---------------------------------------------------------------------

\* the call that is suspended in the sendall of its answer, if any
SuspendHistory == [phase |-> "option", i |-> 0, command |-> NoneInt, suspended |-> "none"]

\* activate(send=True) up to its telnet_send_option
activate_sending(st, i) == [st EXCEPT !._telnet_options[i].state = ACTIVE]

\* activate(send=True) from the return of its telnet_send_option
activate_sent(st, i) ==
    callback([ telnet_send_option(st, st._telnet_options[i].send_yes, st._telnet_options[i].option)
               EXCEPT !._telnet_options[i].active = TRUE,
                      !._telnet_options[i].active_event = TRUE ],
             st._telnet_options[i].activation_callback)

\* deactivate(send=True) up to its telnet_send_option
deactivate_sending(st, i) == [st EXCEPT !._telnet_options[i].state = INACTIVE]

\* deactivate(send=True) from the return of its telnet_send_option
deactivate_sent(st, i) ==
    callback([ telnet_send_option(st, st._telnet_options[i].send_no, st._telnet_options[i].option)
               EXCEPT !._telnet_options[i].active = FALSE,
                      !._telnet_options[i].active_event = FALSE ],
             st._telnet_options[i].deactivation_callback)

\* process_incoming(command) on option i when no call is suspended
TelnetOption_process_incoming_whole(i, command) ==
    /\ rt.suspended = "none"
    /\ TelnetOption_process_incoming(i, command)

\* process_incoming(command) on option i calls activate(send=True) or
\* deactivate(send=True), and the socket cannot take the answer at once: the
\* task yields in the sendall of telnet_send_option
TelnetOption_process_incoming_blocked(i, command) ==
    /\ rt.phase = "option"
    /\ rt.suspended = "none"
    /\ \/ /\ command = client._telnet_options[i].ack_yes
          /\ client._telnet_options[i].state = INACTIVE
          /\ client' = Fields(client, activate_sending(Run(client, serial), i))
          /\ rt' = [rt EXCEPT !.i = i, !.command = command, !.suspended = "activate"]
       \/ /\ command = client._telnet_options[i].ack_no
          /\ client._telnet_options[i].state = ACTIVE
          /\ client' = Fields(client, deactivate_sending(Run(client, serial), i))
          /\ rt' = [rt EXCEPT !.i = i, !.command = command, !.suspended = "deactivate"]
    /\ sent' = <<>>
    /\ log' = <<>>
    /\ calls' = <<>>
    /\ step' = "process_incoming_blocked"
    /\ UNCHANGED <<manager, serial, task, peer, c2s, recvd, tty, reader, user, s2c>>

\* the socket is writable again: sendall returns and the suspended call
\* goes on to its end
TelnetOption_process_incoming_resumed ==
    /\ rt.phase = "option"
    /\ rt.suspended # "none"
    /\ \E st \in { IF rt.suspended = "activate" THEN activate_sent(Run(client, serial), rt.i)
                   ELSE deactivate_sent(Run(client, serial), rt.i) } :
           /\ client' = Fields(client, st)
           /\ sent' = st.wr
           /\ log' = st.log
           /\ calls' = st.calls
    /\ rt' = [rt EXCEPT !.suspended = "none"]
    /\ step' = "process_incoming"
    /\ UNCHANGED <<manager, serial, task, peer, c2s, recvd, tty, reader, user, s2c>>

\* the two options as constructed, no call suspended
InitSuspend ==
    /\ rt = SuspendHistory
    /\ \E s1 \in InitialStates : \E s2 \in InitialStates :
           client = [Serial(9600) EXCEPT !._telnet_options =
                        << TelnetOption("we-SGA", SGA, WILL, WONT, DO, DONT, s1, "activation", "deactivation"),
                           TelnetOption("ECHO", ECHO, DO, DONT, WILL, WONT, s2, "activation", "deactivation") >>]
    /\ peer = {}
    /\ manager = NoClient
    /\ serial = SerialDevice(FALSE, TRUE)
    /\ task = "absent"
    /\ reader = "running"
    /\ user = "all_mandatory"
    /\ c2s = <<>>
    /\ s2c = <<>>
    /\ recvd = <<>>
    /\ sent = <<>>
    /\ tty = <<>>
    /\ log = <<>>
    /\ calls = <<>>
    /\ step = "TelnetOption"

NextSuspend ==
    \/ \E i \in 1..Len(client._telnet_options) : \E command \in OptionCommands :
           TelnetOption_process_incoming_whole(i, command)
    \/ \E i \in 1..Len(client._telnet_options) : \E command \in OptionCommands :
           TelnetOption_process_incoming_blocked(i, command)
    \/ TelnetOption_process_incoming_resumed

\* the commands of a peer come in one by one; the answer to a command is
\* sent at once or after a wait
SpecSuspend == InitSuspend /\ [][NextSuspend]_vars

\* C38: while activate(send=True) or deactivate(send=True) is suspended in
\* the send of its answer, the option is as consistent as between the
\* calls: no task sees it with state ACTIVE and active false, with another
\* state and active true, or with the event set in another state than
\* ACTIVE
C38_ConsistentWhileSuspended ==
    rt.suspended # "none" =>
        \A i \in 1..Len(client._telnet_options) :
            /\ client._telnet_options[i].active <=> client._telnet_options[i].state = ACTIVE
            /\ client._telnet_options[i].active_event => client._telnet_options[i].state = ACTIVE

\* the step delivered one block to the client: the acknowledgement of the
\* sub-option name, on which set() has not been called
Unsolicited(name) ==
    /\ Read
    /\ client._rfc2217_options[name].value = NoneBytes
    /\ ComPort(calls', client._rfc2217_options[name].ack_option)

\* C39: an acknowledgement for a sub-option on which set() was never called
\* does no harm on the client: the sub-option does not become ACTIVE, its
\* event is not set, and the reader goes on running
C39_UnsolicitedAck ==
    [][\A name \in DOMAIN client._rfc2217_options :
          Unsolicited(name)
             => /\ client'._rfc2217_options[name].state # ACTIVE
                /\ ~ client'._rfc2217_options[name].active_event
                /\ reader' = "running"]_vars

----------------------------------------------------------------------------
(* the client's read loop and the server's filter side by side: one byte    *)
(* stream, cut into the same chunks, is given to both                       *)

\* the most bytes of one chunk
MaxChunk == 2
\* the most bytes a block of the stream holds
MaxBlock == 2

\* the octets of the stream: the framing octets, one negotiation command, the
\* option of RFC 2217 and a sub-option code only a server sends; the last two
\* also stand for data and, after an IAC, for the other Telnet commands
SameBytes == {IAC, SB, SE, DO, COM_PORT_OPTION, SERVER_SET_BAUDRATE}

SameChunks == UNION { [1..n -> SameBytes] : n \in 1..MaxChunk }

\* what the client's loop did in the step: the bytes put into the read
\* buffer, the handler calls made and the frames sent
SameHistory == [phase |-> "same", out |-> <<>>, calls |-> <<>>, wr |-> <<>>]

\* a PortManager on an accepted connection and a Serial whose read loop has
\* just been spawned by open()
InitSame ==
    /\ peer = SameChunks
    /\ manager = PortManager
    /\ serial = SerialDevice(FALSE, TRUE)
    /\ task = "running"
    /\ client = Serial(9600)
    /\ reader = "running"
    /\ user = "all_mandatory"
    /\ c2s = <<>>
    /\ s2c = <<>>
    /\ recvd = <<>>
    /\ sent = <<>>
    /\ tty = <<>>
    /\ log = <<>>
    /\ calls = <<>>
    /\ step = "init"
    /\ rt = SameHistory

\* recv() returns the chunk data on both sockets: the server pushes it
\* through manager.filter, the client's loop goes over its bytes
recv_same(data) ==
    /\ rt.phase = "same"
    /\ task = "running"
    /\ reader = "running"
    /\ \E ss \in { filter(Run(manager, serial), data) } :
       \E sc \in { _telnet_read_loop_bytes(Run(client, serial), data) } :
           /\ ss.suboption = NoneBytes \/ Len(ss.suboption) <= MaxBlock
           /\ sc.suboption = NoneBytes \/ Len(sc.suboption) <= MaxBlock
           /\ manager' = Fields(manager, ss)
           /\ serial' = ss.serial
           /\ task' = IF ss.exc = "none" THEN "running" ELSE "dead"
           /\ client' = Fields(client, sc)
           /\ reader' = IF sc.exc = "none" THEN "running" ELSE "dead"
           /\ tty' = ss.out
           /\ calls' = ss.calls
           /\ sent' = ss.wr
           /\ log' = ss.log
           /\ rt' = [rt EXCEPT !.out = sc.out, !.calls = sc.calls, !.wr = sc.wr]
    /\ recvd' = data
    /\ step' = "recv_same"
    /\ UNCHANGED <<peer, user, c2s, s2c>>

NextSame == \E data \in SameChunks : recv_same(data)

SpecSame == InitSame /\ [][NextSame]_vars

\* the calls the loop itself makes among the recorded calls, without those
\* the handlers make in turn
HandlerCalls(c) ==
    SelectSeq(c, LAMBDA x : x[1] \in {"command", "negotiate", "subnegotiation"})

\* the two machines stand at the same place and did the same in the step
SamePlace ==
    /\ manager.mode = client.mode
    /\ manager.suboption = client.suboption
    /\ tty = rt.out
    /\ HandlerCalls(calls) = HandlerCalls(rt.calls)

\* the server's side did a part of what the client's did in the step, or the
\* other way round, and stopped inside a handler
ServerStopped ==
    /\ HandlerCalls(calls) # <<>>
    /\ IsPrefix(HandlerCalls(calls), HandlerCalls(rt.calls))
    /\ IsPrefix(tty, rt.out)
ClientStopped ==
    /\ HandlerCalls(rt.calls) # <<>>
    /\ IsPrefix(HandlerCalls(rt.calls), HandlerCalls(calls))
    /\ IsPrefix(rt.out, tty)

====
